---- MODULE Spec2Model ----
(***************************************************************************)
(* Model of the hair-lead-finder extensions:                               *)
(*   - InstagramCrawler (hair-lead-finder-browser, ig-crawler part of      *)
(*     src/extensions/hair-lead-finder-browser/src/demo.ts)                *)
(*   - DMSender (src/extensions/hair-lead-finder/src/dm-sender.ts)         *)
(*   - ProfileAnalyzer (hair-lead-finder-browser/src/analyzer.ts and the   *)
(*     analyzer part of src/extensions/hair-lead-finder/src/dm-sender.ts)  *)
(* An action is the code that runs between the completion of one awaited   *)
(* call and the issue of the next one (JavaScript run-to-completion).      *)
(***************************************************************************)
EXTENDS Integers, Sequences, FiniteSets, TLC

(***************************************************************************)
(* Bounds of the model                                                     *)
(***************************************************************************)
MaxHashtags == 2
MaxPosts == 2
MaxMaxProfiles == 2

Usernames == {"u1", "u2"}
NoUser == "null"

(***************************************************************************)
(* Inputs: configuration, analysis verdicts                                *)
(***************************************************************************)
HashtagList(n) == [i \in 1..n |-> i]

Configs ==
  [hashtags : {HashtagList(n) : n \in 0..MaxHashtags},
   minFollowers : {2},
   maxFollowers : {3},
   maxProfiles : 0..MaxMaxProfiles,
   actionDelayMs : {2000}]

\* followersCount values a profile snapshot may show: below, at either end of
\* and above the configured range.
FollowerCounts == {1, 2, 3, 4}

AnalysisResults ==
  [shouldSkip : BOOLEAN, isLikelyOwner : BOOLEAN, score : {2, 8}]

VARIABLES
  config,           \* BrowserLeadFinderConfig given to the constructor
  pc,               \* the awaited call start() is suspended on
  hIdx,             \* index of the hashtag of the for loop of start()
  postRefs,         \* number of post refs extracted for the hashtag
  pIdx,             \* index of the post of the for loop of searchHashtag()
  state,            \* this.state (CrawlerState)
  result,           \* settlement of the promise returned by start()
  emitted,          \* statuses delivered through onStateChange
  delivered,        \* what the last step delivered through onStateChange
  username,         \* local username of analyzePostProfile()
  closeCtx,         \* which call of closeModal() is running
  visitedProfiles,  \* this.visitedProfiles
  discoveredLeads,  \* this.discoveredLeads
  onErrorCalls,     \* number of events.onError calls
  skipCalls,        \* reasons of the events.onProfileSkipped calls per username
  leadCalls,        \* arguments of the events.onLeadDiscovered calls
  analyzerCalls,    \* number of analyzer.analyzeProfile calls per username
  profileVisits,    \* number of navigations to the profile page per username
  profileOf,        \* <<followersCount>> extracted per username, <<>> before
  analysis,         \* <<analysis>> the last step received, <<>> if none
  thrown,           \* the call whose exception the last step handled, if any
  tagNavs,          \* number of navigations to a hashtag page
  loginFailed,      \* the login check threw
  delayMs,          \* timeMs of the pacing browser.wait being awaited, else 0
  inFlight,         \* number of browser calls issued and not yet settled
  dpc,              \* the awaited call sendDM() is suspended on
  dmState,          \* this.state of DMSender (DMSendingState)
  decision,         \* what onConfirmationRequired resolved with
  browserLog,       \* the browser calls sendDM() has issued, in order
  dmResult,         \* settlement of the promise returned by sendDM()
  onCompleteCalls,  \* arguments of the events.onComplete calls
  confirmCalls,     \* states passed to events.onConfirmationRequired
  dSnapshot,        \* the snapshot the control of the call awaited was found in
  apc,              \* the awaited call analyzeProfile() is suspended on
  analyzer,         \* the ProfileAnalyzer class of the call: openai, anthropic
  aProfile,         \* <<profile>> given to analyzeProfile(), <<>> before
  llm,              \* <<outcome>> of the language model call, <<>> before
  aResult,          \* settlement of the promise returned by analyzeProfile()
  rSnapshot,        \* snapshot given to findRefByText()
  rPatterns,        \* patterns given to findRefByText()
  rResult,          \* <<value>> findRefByText() returned, <<>> before
  cImpl,            \* the parseCount() called: crawler (demo.ts), script
  cInput,           \* <<count>> whose text parseCount() was given, <<>> before
  cResult,          \* <<value>> parseCount() returned, <<>> before
  eLines,           \* the lines of the snapshot given to extractProfileData()
  eOrder,           \* <<>> or another order of the same lines
  eResult,          \* <<profile>> extractProfileData() returned, <<>> before
  eReordered,       \* <<profile>> returned for the lines in the other order
  wpc,              \* the awaited call run() of the workflow is suspended on
  wConfig,          \* <<config>> of the workflow, <<>> before run()
  wState,           \* this.state of the workflow (WorkflowState)
  wSteps,           \* the step of each state delivered to onStateChange
  wRequested,       \* usernames given to the profile scraper being awaited
  wDataset,         \* the items of the profile dataset, <<>> before
  wProfiles,        \* the profiles scrapeProfiles() returned
  wOutcomes,        \* what the language model calls of the batch settled with
  wAnalyzerCalls,   \* the profiles analyzeProfile() was called with
  wResults,         \* results of analyzeProfiles()
  wProgress,        \* arguments of the onProgress calls
  wResult,          \* settlement of the promise returned by run()
  wOnError,         \* number of events.onError calls of the workflow
  wOnAnalysisComplete, \* arguments of the events.onAnalysisComplete calls
  wFailedAt,        \* the awaited call whose rejection run() caught, if any
  gpc,              \* searchHashtag(): awaiting the snapshot, or in the loop
  gHashtag,         \* index of the hashtag searched
  gSnapshot,        \* the snapshot of the hashtag page
  gRefs,            \* postRefs of searchHashtag()
  gFoundBefore,     \* state.profilesFound before this hashtag
  gFound,           \* state.profilesFound
  gClicked          \* the refs clicked for this hashtag, in order

ctlVars == <<pc, hIdx, postRefs, pIdx, state, result, emitted, tagNavs>>
obsVars == <<onErrorCalls, skipCalls, leadCalls, analyzerCalls, profileVisits,
             profileOf, analysis, loginFailed>>
crawlVars == <<config, pc, hIdx, postRefs, pIdx, state, result, emitted, delivered,
              username,
               closeCtx, visitedProfiles, discoveredLeads, onErrorCalls, skipCalls,
               leadCalls, analyzerCalls, profileVisits, profileOf, analysis,
               thrown, tagNavs, loginFailed, delayMs>>

browserVars == <<inFlight>>

dmVars == <<dpc, dmState, decision, browserLog, dmResult, onCompleteCalls,
            confirmCalls, dSnapshot>>

analyzerVars == <<apc, analyzer, aProfile, llm, aResult>>

refVars == <<rSnapshot, rPatterns, rResult>>

countVars == <<cImpl, cInput, cResult>>

extractVars == <<eLines, eOrder, eResult, eReordered>>

workflowVars == <<wpc, wConfig, wState, wSteps, wRequested, wDataset, wProfiles,
                  wOutcomes, wAnalyzerCalls, wResults, wProgress, wResult,
                  wOnError, wOnAnalysisComplete, wFailedAt>>

\* The variables of the components that are called on their own.
postsVars == <<gpc, gHashtag, gSnapshot, gRefs, gFoundBefore, gFound, gClicked>>

unitVars == <<analyzerVars, refVars, countVars, extractVars, workflowVars,
              postsVars>>

\* What a call of analyzeProfile(), of findRefByText(), of parseCount(), of
\* extractProfileData(), and a run of the workflow leave alone.
notAnalyzerVars == <<crawlVars, dmVars, browserVars, refVars, countVars,
                     extractVars, workflowVars, postsVars>>
notRefVars == <<crawlVars, dmVars, browserVars, analyzerVars, countVars,
                extractVars, workflowVars, postsVars>>
notCountVars == <<crawlVars, dmVars, browserVars, analyzerVars, refVars,
                  extractVars, workflowVars, postsVars>>
notExtractVars == <<crawlVars, dmVars, browserVars, analyzerVars, refVars,
                    countVars, workflowVars, postsVars>>
notWorkflowVars == <<crawlVars, dmVars, browserVars, analyzerVars, refVars,
                     countVars, extractVars, postsVars>>
notPostsVars == <<crawlVars, dmVars, browserVars, analyzerVars, refVars,
                  countVars, extractVars, workflowVars>>

(***************************************************************************)
(* InstagramCrawler: construction                                          *)
(***************************************************************************)
\* Faulty variant: a profile counts as skipped before the crawl has begun.
createInitialStateSkipped ==
  [status |-> "idle", profilesFound |-> 0, profilesAnalyzed |-> 0,
   leadsDiscovered |-> 0, profilesSkipped |-> 1, error |-> "none"]

\* createInitialState()
createInitialState ==
  [status |-> "idle", profilesFound |-> 0, profilesAnalyzed |-> 0,
   leadsDiscovered |-> 0, profilesSkipped |-> 0, error |-> "none"]

CrawlerInit ==
  /\ config \in Configs
  /\ pc = "idle"
  /\ hIdx = 0
  /\ postRefs = 0
  /\ pIdx = 0
  /\ state = createInitialState
  /\ result = "pending"
  /\ emitted = {}
  /\ delivered = <<>>
  /\ username = NoUser
  /\ closeCtx = "none"
  /\ visitedProfiles = {}
  /\ discoveredLeads = <<>>
  /\ onErrorCalls = 0
  /\ skipCalls = [u \in Usernames |-> <<>>]
  /\ leadCalls = <<>>
  /\ analyzerCalls = [u \in Usernames |-> 0]
  /\ profileVisits = [u \in Usernames |-> 0]
  /\ profileOf = [u \in Usernames |-> <<>>]
  /\ analysis = <<>>
  /\ thrown = "none"
  /\ tagNavs = 0
  /\ loginFailed = FALSE
  /\ delayMs = 0

\* The browser before any call.
BrowserInit == inFlight = 0

(***************************************************************************)
(* Control flow helpers. A control record holds the position the code      *)
(* reaches and the CrawlerState it has delivered last.                     *)
(***************************************************************************)
Ctl(p, h, n, i, st, r) ==
  [pc |-> p, hIdx |-> h, postRefs |-> n, pIdx |-> i, state |-> st, result |-> r]

\* Faulty variant: searchHashtag() does not report the searching status.
HashtagLoopSilent(h, st, leads) ==
  IF h > Len(config.hashtags) \/ Len(leads) >= config.maxProfiles
  THEN Ctl("done", h, 0, 0, [st EXCEPT !.status = "completed"], "resolved")
  ELSE Ctl("searchHashtag_navigate", h, 0, 0, st, "pending")

\* start(): head of `for (const hashtag of this.config.hashtags)`, then the
\* entry of searchHashtag() or the updateState({status: "completed"}).
HashtagLoop(h, st, leads) ==
  IF h > Len(config.hashtags) \/ Len(leads) >= config.maxProfiles
  THEN Ctl("done", h, 0, 0, [st EXCEPT !.status = "completed"], "resolved")
  ELSE Ctl("searchHashtag_navigate", h, 0, 0,
           [st EXCEPT !.status = "searching"], "pending")

\* Faulty variant: the post loop does not check the number of leads.
PostLoopNoLimit(i, n, h, st, leads) ==
  IF i > n
  THEN HashtagLoop(h + 1, st, leads)
  ELSE Ctl("analyzePostProfile_click", h, n, i, st, "pending")

\* searchHashtag(): head of `for (const postRef of postRefs)`.
PostLoop(i, n, h, st, leads) ==
  IF i > n \/ Len(leads) >= config.maxProfiles
  THEN HashtagLoop(h + 1, st, leads)
  ELSE Ctl("analyzePostProfile_click", h, n, i, st, "pending")

\* searchHashtag(): the statement after the try/catch, browser.wait(delay).
AfterPost(st) ==
  Ctl("searchHashtag_delay", hIdx, postRefs, pIdx, st, "pending")

\* Faulty variant: the catch block does not re-raise.
FatalSwallowed(st) ==
  Ctl("failed", hIdx, postRefs, pIdx,
      [st EXCEPT !.status = "error", !.error = "message"], "resolved")

\* start(): the catch block.
Fatal(st) ==
  Ctl("failed", hIdx, postRefs, pIdx,
      [st EXCEPT !.status = "error", !.error = "message"], "rejected")

\* The positions at which start() and sendDM() await a browser call
\* (navigate, click, type, snapshot, wait, screenshot, goBack).
BrowserCalls ==
  {"start_navigate", "start_wait", "start_snapshot", "searchHashtag_navigate",
   "searchHashtag_wait", "searchHashtag_snapshot", "searchHashtag_delay",
   "analyzePostProfile_click", "analyzePostProfile_wait1",
   "analyzePostProfile_snapshot1", "closeModal_snapshot", "closeModal_click",
   "closeModal_back", "analyzePostProfile_wait2", "analyzePostProfile_navigate",
   "analyzePostProfile_wait3", "analyzePostProfile_snapshot2",
   "navigateToProfile_navigate", "navigateToProfile_wait",
   "navigateToProfile_snapshot", "openDMDialog_snapshot", "openDMDialog_click",
   "openDMDialog_wait", "typeMessage_snapshot", "typeMessage_type",
   "typeMessage_wait", "takeConfirmationScreenshot", "clickSendButton_snapshot",
   "clickSendButton_click", "clickSendButton_wait", "verifySent_wait",
   "verifySent_snapshot"}

\* The browser calls the code issues on its way to position p: the one it
\* awaits there.
Issued(p) == IF p \in BrowserCalls THEN 1 ELSE 0

\* Faulty variant: the pacing wait is issued without await, so that the code
\* goes on while it is outstanding.
SettledButDelay(p) ==
  IF p \in BrowserCalls \ {"searchHashtag_delay"} THEN 1 ELSE 0

\* The browser calls that have settled when the code resumes at position p:
\* `await` resumes it with the settlement of the call.
Settled(p) == IF p \in BrowserCalls THEN 1 ELSE 0

\* `Math.random() * 1000`: from 0 up to, not including, 1000.
RandomMs == {0, 999}

\* Faulty variant: the configured delay is left out.
DelayRandomOnly(r) == r

\* `const delay = this.config.actionDelayMs + Math.random() * 1000`
Delay(r) == config.actionDelayMs + r

\* A CrawlerState as onStateChange receives it, with the number of leads
\* recorded and of usernames visited at the time.
Delivery(st, leads, visited) ==
  [state |-> st, leads |-> leads, visited |-> visited]

\* updateState(): replace the state and deliver it to onStateChange. The
\* step has delivered the states mids on its way, before any lead or
\* username it records, and ends in the state of c, delivered with the
\* given numbers of leads and of usernames. An update that changes nothing
\* of the state repeats the last delivery and is not recorded.
ApplyVia(mids, c, leads, visited) ==
  /\ pc' = c.pc
  /\ hIdx' = c.hIdx
  /\ postRefs' = c.postRefs
  /\ pIdx' = c.pIdx
  /\ state' = c.state
  /\ result' = c.result
  /\ emitted' = IF c.state = state THEN emitted ELSE emitted \cup {c.state.status}
  /\ delivered' =
       LET last == IF mids = <<>> THEN state ELSE mids[Len(mids)]
       IN [k \in DOMAIN mids |->
             Delivery(mids[k], Len(discoveredLeads),
                      Cardinality(visitedProfiles))]
          \o (IF c.state = last THEN <<>>
              ELSE <<Delivery(c.state, leads, visited)>>)
  /\ tagNavs' = IF c.pc = "searchHashtag_navigate" THEN tagNavs + 1 ELSE tagNavs
  /\ onErrorCalls' = IF c.pc = "failed" THEN onErrorCalls + 1 ELSE onErrorCalls
  /\ delayMs' \in IF c.pc = "searchHashtag_delay" THEN {Delay(r) : r \in RandomMs}
                   ELSE {0}
  /\ inFlight' = inFlight - Settled(pc) + Issued(c.pc)

\* A step that records no lead and no username and delivers at most one
\* state.
Apply(c) ==
  ApplyVia(<<>>, c, Len(discoveredLeads), Cardinality(visitedProfiles))

Goto(p) == Ctl(p, hIdx, postRefs, pIdx, state, "pending")

(***************************************************************************)
(* The catch of searchHashtag() around analyzePostProfile(): the exception *)
(* is written to the console and the loop goes on to the pacing delay.     *)
(***************************************************************************)
Caught == AfterPost(state)

\* One awaited browser call of analyzePostProfile() at position `at`: it
\* resolves and the code goes on to `next`, or it rejects and the exception
\* leaves analyzePostProfile().
BrowserStep(at, next) ==
  /\ pc = at
  /\ \E ok \in BOOLEAN :
       IF ok
       THEN Apply(Goto(next)) /\ thrown' = "none"
       ELSE Apply(Caught) /\ thrown' = pc
  /\ UNCHANGED <<dmVars, unitVars, config, username, closeCtx, visitedProfiles, discoveredLeads,
                 skipCalls, leadCalls, analyzerCalls, profileVisits, profileOf,
                 loginFailed>>
  /\ analysis' = <<>>

\* One awaited browser call outside every try block but that of start().
TopLevelStep(at, next) ==
  /\ pc = at
  /\ \E ok \in BOOLEAN :
       IF ok
       THEN Apply(Goto(next)) /\ thrown' = "none"
       ELSE Apply(Fatal(state)) /\ thrown' = pc
  /\ UNCHANGED <<dmVars, unitVars, config, username, closeCtx, visitedProfiles, discoveredLeads,
                 skipCalls, leadCalls, analyzerCalls, profileVisits, profileOf,
                 loginFailed>>
  /\ analysis' = <<>>

(***************************************************************************)
(* InstagramCrawler.start()                                                *)
(***************************************************************************)
start ==
  /\ pc = "idle"
  /\ Apply(Ctl("start_navigate", hIdx, postRefs, pIdx,
               [state EXCEPT !.status = "starting"], "pending"))
  /\ UNCHANGED <<dmVars, unitVars, config, username, closeCtx, visitedProfiles, discoveredLeads,
                 skipCalls, leadCalls, analyzerCalls, profileVisits, profileOf,
                 loginFailed>>
  /\ analysis' = <<>>
  /\ thrown' = "none"

start_navigate == TopLevelStep("start_navigate", "start_wait")

start_wait == TopLevelStep("start_wait", "start_snapshot")

\* The login check: the snapshot contains "Log in" or "登入", or not.
start_snapshot ==
  /\ pc = "start_snapshot"
  /\ \E ok \in BOOLEAN, loggedOut \in BOOLEAN :
       IF ok /\ ~loggedOut
       THEN /\ Apply(HashtagLoop(1, state, discoveredLeads))
            /\ thrown' = "none" /\ UNCHANGED loginFailed
       ELSE /\ Apply(Fatal(state))
            /\ thrown' = pc
            /\ loginFailed' = (ok /\ loggedOut)
  /\ UNCHANGED <<dmVars, unitVars, config, username, closeCtx, visitedProfiles, discoveredLeads,
                 skipCalls, leadCalls, analyzerCalls, profileVisits, profileOf>>
  /\ analysis' = <<>>

(***************************************************************************)
(* InstagramCrawler.searchHashtag()                                        *)
(***************************************************************************)
searchHashtag_navigate == TopLevelStep("searchHashtag_navigate", "searchHashtag_wait")

searchHashtag_wait == TopLevelStep("searchHashtag_wait", "searchHashtag_snapshot")

\* The snapshot of the hashtag page and extractPostRefs(): n refs are found.
searchHashtag_snapshot ==
  /\ pc = "searchHashtag_snapshot"
  /\ \E ok \in BOOLEAN, n \in 0..MaxPosts :
       IF ok
       THEN /\ LET st == [state EXCEPT !.profilesFound = @ + n]
               IN ApplyVia(<<st>>,
                           PostLoop(1, n, hIdx, st, discoveredLeads),
                           Len(discoveredLeads), Cardinality(visitedProfiles))
            /\ thrown' = "none"
       ELSE /\ n = 0
            /\ Apply(Fatal(state))
            /\ thrown' = pc
  /\ UNCHANGED <<dmVars, unitVars, config, username, closeCtx, visitedProfiles, discoveredLeads,
                 skipCalls, leadCalls, analyzerCalls, profileVisits, profileOf,
                 loginFailed>>
  /\ analysis' = <<>>

\* Faulty variant: the loop stays at the post it has just handled.
SamePost(i) == i

\* `for (const postRef of postRefs)`: the loop goes on to the next ref.
NextPost(i) == i + 1

\* The pacing delay after the try/catch of the post loop.
searchHashtag_delay ==
  /\ pc = "searchHashtag_delay"
  /\ \E ok \in BOOLEAN :
       IF ok
       THEN /\ Apply(PostLoop(NextPost(pIdx), postRefs, hIdx, state,
                               discoveredLeads))
            /\ thrown' = "none"
       ELSE /\ Apply(Fatal(state))
            /\ thrown' = pc
  /\ UNCHANGED <<dmVars, unitVars, config, username, closeCtx, visitedProfiles, discoveredLeads,
                 skipCalls, leadCalls, analyzerCalls, profileVisits, profileOf,
                 loginFailed>>
  /\ analysis' = <<>>

(***************************************************************************)
(* InstagramCrawler.analyzePostProfile()                                   *)
(***************************************************************************)
analyzePostProfile_click ==
  BrowserStep("analyzePostProfile_click", "analyzePostProfile_wait1")

analyzePostProfile_wait1 ==
  BrowserStep("analyzePostProfile_wait1", "analyzePostProfile_snapshot1")

\* Faulty variant: the visited set is not consulted.
AlreadySeenNoDedup(u) == u = NoUser

\* `!username || this.visitedProfiles.has(username)`
AlreadySeen(u) == u = NoUser \/ u \in visitedProfiles

\* The snapshot of the post and extractUsernameFromPost(): username u or null.
analyzePostProfile_snapshot1 ==
  /\ pc = "analyzePostProfile_snapshot1"
  /\ \E ok \in BOOLEAN, u \in Usernames \cup {NoUser} :
       IF ~ok
       THEN /\ u = NoUser
            /\ Apply(Caught)
            /\ thrown' = pc
            /\ UNCHANGED <<username, closeCtx, visitedProfiles>>
       ELSE IF AlreadySeen(u)
       THEN /\ Apply(Goto("closeModal_snapshot"))
            /\ username' = u
            /\ closeCtx' = "return"
            /\ thrown' = "none" /\ UNCHANGED visitedProfiles
       ELSE /\ ApplyVia(<<>>,
                        Ctl("closeModal_snapshot", hIdx, postRefs, pIdx,
                            [state EXCEPT !.status = "browsing"], "pending"),
                        Len(discoveredLeads),
                        Cardinality(visitedProfiles \cup {u}))
            /\ username' = u
            /\ closeCtx' = "visit"
            /\ visitedProfiles' = visitedProfiles \cup {u}
            /\ thrown' = "none"
  /\ UNCHANGED <<dmVars, unitVars, config, discoveredLeads, skipCalls, leadCalls, analyzerCalls,
                 profileVisits, profileOf, loginFailed>>
  /\ analysis' = <<>>

(***************************************************************************)
(* InstagramCrawler.closeModal()                                           *)
(***************************************************************************)
\* closeModal() has returned: analyzePostProfile() returns (first call) or
\* goes on to browser.wait({timeMs: 500}) (second call).
AfterClose ==
  IF closeCtx = "return" THEN AfterPost(state) ELSE Goto("analyzePostProfile_wait2")

closeModal_snapshot ==
  /\ pc = "closeModal_snapshot"
  /\ \E ok \in BOOLEAN, closeMatch \in BOOLEAN :
       IF ~ok
       THEN /\ ~closeMatch
            /\ Apply(Goto("closeModal_back"))
            /\ thrown' = pc
       ELSE /\ Apply(IF closeMatch THEN Goto("closeModal_click") ELSE AfterClose)
            /\ thrown' = "none"
  /\ UNCHANGED <<dmVars, unitVars, config, username, closeCtx, visitedProfiles, discoveredLeads,
                 skipCalls, leadCalls, analyzerCalls, profileVisits, profileOf,
                 loginFailed>>
  /\ analysis' = <<>>

closeModal_click ==
  /\ pc = "closeModal_click"
  /\ \E ok \in BOOLEAN :
       IF ok
       THEN Apply(AfterClose) /\ thrown' = "none"
       ELSE Apply(Goto("closeModal_back")) /\ thrown' = pc
  /\ UNCHANGED <<dmVars, unitVars, config, username, closeCtx, visitedProfiles, discoveredLeads,
                 skipCalls, leadCalls, analyzerCalls, profileVisits, profileOf,
                 loginFailed>>
  /\ analysis' = <<>>

\* The catch of closeModal(): browser.navigate("javascript:history.back()").
closeModal_back ==
  /\ pc = "closeModal_back"
  /\ \E ok \in BOOLEAN :
       IF ok
       THEN Apply(AfterClose) /\ thrown' = "none"
       ELSE Apply(Caught) /\ thrown' = pc
  /\ UNCHANGED <<dmVars, unitVars, config, username, closeCtx, visitedProfiles, discoveredLeads,
                 skipCalls, leadCalls, analyzerCalls, profileVisits, profileOf,
                 loginFailed>>
  /\ analysis' = <<>>

\* browser.wait({timeMs: 500}) has returned: the profile page is navigated to.
analyzePostProfile_wait2 ==
  /\ pc = "analyzePostProfile_wait2"
  /\ \E ok \in BOOLEAN :
       IF ok
       THEN /\ Apply(Goto("analyzePostProfile_navigate"))
            /\ profileVisits' = [profileVisits EXCEPT ![username] = @ + 1]
            /\ thrown' = "none"
       ELSE /\ Apply(Caught)
            /\ thrown' = pc
            /\ UNCHANGED profileVisits
  /\ UNCHANGED <<dmVars, unitVars, config, username, closeCtx, visitedProfiles, discoveredLeads,
                 skipCalls, leadCalls, analyzerCalls, profileOf, loginFailed>>
  /\ analysis' = <<>>

analyzePostProfile_navigate ==
  BrowserStep("analyzePostProfile_navigate", "analyzePostProfile_wait3")

analyzePostProfile_wait3 ==
  BrowserStep("analyzePostProfile_wait3", "analyzePostProfile_snapshot2")

\* Faulty variant: the upper bound of the follower range is not checked.
OutOfRangeNoMax(f) == f < config.minFollowers

\* The follower count filter.
OutOfRange(f) == f < config.minFollowers \/ f > config.maxFollowers

\* The snapshot of the profile page and extractProfileData(): f followers.
analyzePostProfile_snapshot2 ==
  /\ pc = "analyzePostProfile_snapshot2"
  /\ \E ok \in BOOLEAN, f \in FollowerCounts :
       IF ~ok
       THEN /\ f = 1
            /\ Apply(Caught)
            /\ thrown' = pc
            /\ UNCHANGED <<skipCalls, analyzerCalls, profileOf>>
       ELSE IF OutOfRange(f)
       THEN /\ skipCalls' = [skipCalls EXCEPT ![username] = Append(@, "followers")]
            /\ Apply(AfterPost([state EXCEPT !.profilesSkipped = @ + 1]))
            /\ profileOf' = [profileOf EXCEPT ![username] = <<f>>]
            /\ thrown' = "none"
            /\ UNCHANGED analyzerCalls
       ELSE /\ Apply(Ctl("analyzePostProfile_analyze", hIdx, postRefs, pIdx,
                         [state EXCEPT !.status = "analyzing"], "pending"))
            /\ analyzerCalls' = [analyzerCalls EXCEPT ![username] = @ + 1]
            /\ profileOf' = [profileOf EXCEPT ![username] = <<f>>]
            /\ thrown' = "none"
            /\ UNCHANGED skipCalls
  /\ UNCHANGED <<dmVars, unitVars, config, username, closeCtx, visitedProfiles, discoveredLeads,
                 leadCalls, profileVisits, loginFailed>>
  /\ analysis' = <<>>

\* `const lead: DiscoveredLead = {...}`
Lead(u, f, a, h) ==
  [username |-> u, followersCount |-> f, analysis |-> a, sourceHashtag |-> h]

\* Faulty variant: a high score overrides the skip verdict.
SkipsUnlessHighScore(a) == a.shouldSkip /\ a.score < 5

\* Faulty variant: a low score is skipped whatever the verdict.
SkipsLowScore(a) == a.shouldSkip \/ a.score < 5

\* `if (analysis.shouldSkip)`
Skips(a) == a.shouldSkip

\* analyzer.analyzeProfile() has resolved with analysis a.
analyzePostProfile_analyze ==
  /\ pc = "analyzePostProfile_analyze"
  /\ \E a \in AnalysisResults :
       LET st == [state EXCEPT !.profilesAnalyzed = @ + 1]
           lead == Lead(username, profileOf[username][1], a, config.hashtags[hIdx])
       IN /\ analysis' = <<a>>
          /\ IF Skips(a)
             THEN /\ skipCalls' = [skipCalls EXCEPT ![username] =
                                                  Append(@, "analysis")]
                  /\ ApplyVia(<<st>>,
                              AfterPost([st EXCEPT !.profilesSkipped = @ + 1]),
                              Len(discoveredLeads),
                              Cardinality(visitedProfiles))
                  /\ UNCHANGED <<discoveredLeads, leadCalls>>
             ELSE /\ discoveredLeads' = Append(discoveredLeads, lead)
                  /\ ApplyVia(<<st>>,
                              AfterPost([st EXCEPT !.leadsDiscovered =
                                                     Len(discoveredLeads')]),
                              Len(discoveredLeads'),
                              Cardinality(visitedProfiles))
                  /\ leadCalls' = Append(leadCalls, lead)
                  /\ UNCHANGED skipCalls
  /\ thrown' = "none"
  /\ UNCHANGED <<dmVars, unitVars, config, username, closeCtx, visitedProfiles, analyzerCalls,
                 profileVisits, profileOf, loginFailed>>

(***************************************************************************)
(* Snapshot text. A line of a snapshot is its element reference, in one of *)
(* the notations the code parses, and its text as a sequence of characters.*)
(***************************************************************************)
MaxLines == 3

UpperCase == <<"A","B","C","D","E","F","G","H","I","J","K","L","M",
               "N","O","P","Q","R","S","T","U","V","W","X","Y","Z">>
LowerCaseLetters == <<"a","b","c","d","e","f","g","h","i","j","k","l","m",
                      "n","o","p","q","r","s","t","u","v","w","x","y","z">>

\* String.prototype.toLowerCase on one character, on a text.
LowerChar(c) ==
  IF \E i \in 1..26 : UpperCase[i] = c
  THEN LowerCaseLetters[CHOOSE i \in 1..26 : UpperCase[i] = c]
  ELSE c

toLowerCase(t) == [i \in 1..Len(t) |-> LowerChar(t[i])]

\* String.prototype.includes
includes(t, p) ==
  \E i \in 0..(Len(t) - Len(p)) : SubSeq(t, i + 1, i + Len(p)) = p

\* The element lines a DM page snapshot is made of. "xun", "xi" stand for the
\* two characters of the Chinese label of the message button.
Line(form, num, text) == [form |-> form, num |-> num, text |-> text]

SnapshotLines ==
  { Line("ref_e", 1, <<"b","u","t","t","o","n"," ","M","e","s","s","a","g","e">>),
    Line("ref_e", 2, <<"t","e","x","t","b","o","x"," ","M","e","s","s","a","g","e",".",".",".">>),
    Line("ref_e", 3, <<"b","u","t","t","o","n"," ","S","e","n","d">>),
    Line("ref_e", 4, <<"b","u","t","t","o","n"," ","F","o","l","l","o","w">>),
    Line("bracket", 5, <<"b","u","t","t","o","n"," ","s","e","n","d">>),
    Line("aria", 6, <<"l","i","n","k"," ","xun","xi">>),
    Line("none", 0, <<"t","e","x","t"," ","S","e","n","d"," ","m","e","s","s","a","g","e">>) }

RECURSIVE SeqsUpTo(_)
SeqsUpTo(n) ==
  IF n = 0 THEN {<<>>}
  ELSE LET shorter == SeqsUpTo(n - 1)
       IN shorter \cup
          {Append(sq, l) : sq \in {x \in shorter : Len(x) = n - 1},
                           l \in SnapshotLines}

DMSnapshots == SeqsUpTo(MaxLines)

NoRef == "null"

\* The ref findRefByText() reads from a line: `[ref=e12]` gives "e12",
\* `[ref=12]` and `[12]` give "12", `aria-ref="12"` gives "12".
RefOfLine(l) ==
  CASE l.form = "ref_e" -> <<"e", l.num>>
    [] l.form = "ref" -> <<"", l.num>>
    [] l.form = "bracket" -> <<"", l.num>>
    [] l.form = "aria" -> <<"", l.num>>
    [] OTHER -> NoRef

\* `lowerLine.includes(pattern.toLowerCase())` for some pattern
LineMatches(l, patterns) ==
  \E p \in patterns : includes(toLowerCase(l.text), toLowerCase(p))

\* The loop over the lines of findRefByText(), from line i on: a line that
\* contains a pattern and carries a ref ends it; a line that contains a
\* pattern and carries no ref is passed over like one that contains none.
RECURSIVE findRefFrom(_, _, _)
findRefFrom(snapshot, patterns, i) ==
  IF i > Len(snapshot) THEN NoRef
  ELSE IF LineMatches(snapshot[i], patterns) /\ RefOfLine(snapshot[i]) # NoRef
       THEN RefOfLine(snapshot[i])
       ELSE findRefFrom(snapshot, patterns, i + 1)

\* Faulty variant: the lines are searched from the last one.
RECURSIVE findRefUpTo(_, _, _)
findRefUpTo(snapshot, patterns, i) ==
  IF i < 1 THEN NoRef
  ELSE IF LineMatches(snapshot[i], patterns) /\ RefOfLine(snapshot[i]) # NoRef
       THEN RefOfLine(snapshot[i])
       ELSE findRefUpTo(snapshot, patterns, i - 1)

findRefByTextLast(snapshot, patterns) == findRefUpTo(snapshot, patterns, Len(snapshot))

\* DMSender.findRefByText()
findRefByText(snapshot, patterns) == findRefFrom(snapshot, patterns, 1)

MessageButtonPatterns ==
  { <<"M","e","s","s","a","g","e">>, <<"xun","xi">>, <<"me","sse","ji">>,
    <<"chuan","song","xun","xi">> }

MessageInputPatterns ==
  { <<"M","e","s","s","a","g","e">>, <<"xun","xi">>,
    <<"W","r","i","t","e"," ","a"," ","m","e","s","s","a","g","e">>,
    <<"shu","ru","xun","xi">> }

SendButtonPatterns ==
  { <<"S","e","n","d">>, <<"chuan","song">>, <<"song","chu">> }

\* The pattern lists findRefByText() is called with.
PatternLists == {MessageButtonPatterns, MessageInputPatterns, SendButtonPatterns}

RefInit ==
  /\ rSnapshot = <<>>
  /\ rPatterns = {}
  /\ rResult = <<>>

\* One call of findRefByText().
findRefByText_call ==
  /\ rResult = <<>>
  /\ \E snapshot \in DMSnapshots, patterns \in PatternLists :
       /\ rSnapshot' = snapshot
       /\ rPatterns' = patterns
       /\ rResult' = <<findRefByText(snapshot, patterns)>>
  /\ UNCHANGED notRefVars

(***************************************************************************)
(* DMSender                                                                *)
(***************************************************************************)
DMInit ==
  /\ dpc = "idle"
  /\ dmState = [browserStatus |-> "closed", error |-> "none", screenshot |-> "none"]
  /\ decision = "none"
  /\ browserLog = <<>>
  /\ dmResult = "pending"
  /\ onCompleteCalls = <<>>
  /\ confirmCalls = <<>>
  /\ dSnapshot = <<>>

Call(op, site, ref) == [op |-> op, site |-> site, ref |-> ref]

\* Faulty variant: the catch block does not call onComplete.
DMCatchSilent(message) ==
  /\ dpc' = "done"
  /\ dmState' = [dmState EXCEPT !.browserStatus = "closed", !.error = message]
  /\ dmResult' = "false"
  /\ UNCHANGED <<decision, browserLog, confirmCalls, onCompleteCalls>>

\* sendDM(): the catch block.
DMCatch(message) ==
  /\ dpc' = "done"
  /\ dmState' = [dmState EXCEPT !.browserStatus = "closed", !.error = message]
  /\ onCompleteCalls' = Append(onCompleteCalls, [success |-> FALSE, error |-> message])
  /\ dmResult' = "false"
  /\ UNCHANGED <<decision, browserLog, confirmCalls>>

\* An awaited browser call at `at` resolves, and the code issues `next`.
DMStep(at, next, call, status) ==
  /\ dpc = at
  /\ UNCHANGED <<crawlVars, unitVars>>
  /\ \E ok \in BOOLEAN :
       IF ok
       THEN /\ dpc' = next
            /\ browserLog' = Append(browserLog, call)
            /\ dmState' = [dmState EXCEPT !.browserStatus = status]
            /\ UNCHANGED <<decision, dmResult, onCompleteCalls, confirmCalls>>
       ELSE DMCatch("browser error")
  /\ dSnapshot' = <<>>
  /\ inFlight' = inFlight - Settled(dpc) + Issued(dpc')

\* sendDM() up to the first await, in navigateToProfile().
sendDM ==
  /\ dpc = "idle"
  /\ UNCHANGED <<crawlVars, unitVars>>
  /\ dpc' = "navigateToProfile_navigate"
  /\ dmState' = [dmState EXCEPT !.browserStatus = "opening", !.error = "none"]
  /\ browserLog' = Append(browserLog, Call("navigate", "navigateToProfile", NoRef))
  /\ UNCHANGED <<decision, dmResult, onCompleteCalls, confirmCalls>>
  /\ dSnapshot' = <<>>
  /\ inFlight' = inFlight - Settled(dpc) + Issued(dpc')

navigateToProfile_navigate ==
  DMStep("navigateToProfile_navigate", "navigateToProfile_wait",
         Call("wait", "navigateToProfile", NoRef), "opening")

navigateToProfile_wait ==
  DMStep("navigateToProfile_wait", "navigateToProfile_snapshot",
         Call("snapshot", "navigateToProfile", NoRef), "opening")

\* The snapshot shows the username or not; then openDMDialog() starts.
navigateToProfile_snapshot ==
  /\ dpc = "navigateToProfile_snapshot"
  /\ UNCHANGED <<crawlVars, unitVars>>
  /\ \E ok \in BOOLEAN, shown \in BOOLEAN :
       IF ~ok THEN shown /\ DMCatch("browser error")
       ELSE IF ~shown THEN DMCatch("profile not loaded")
       ELSE /\ dpc' = "openDMDialog_snapshot"
            /\ dmState' = [dmState EXCEPT !.browserStatus = "ready"]
            /\ browserLog' = Append(browserLog, Call("snapshot", "openDMDialog", NoRef))
            /\ UNCHANGED <<decision, dmResult, onCompleteCalls, confirmCalls>>
  /\ dSnapshot' = <<>>
  /\ inFlight' = inFlight - Settled(dpc) + Issued(dpc')

\* Faulty variant: the browser call is issued whether the control was found
\* or not.
DMResolveUnchecked(at, next, patterns, op, site, missing) ==
  /\ dpc = at
  /\ UNCHANGED <<crawlVars, unitVars>>
  /\ \E ok \in BOOLEAN, snapshot \in DMSnapshots :
       /\ IF ~ok THEN snapshot = <<>> /\ DMCatch("browser error")
          ELSE /\ dpc' = next
               /\ browserLog' = Append(browserLog,
                                       Call(op, site, findRefByText(snapshot, patterns)))
               /\ UNCHANGED <<dmState, decision, dmResult, onCompleteCalls, confirmCalls>>
       /\ dSnapshot' = IF dpc' = next THEN snapshot ELSE <<>>
  /\ inFlight' = inFlight - Settled(dpc) + Issued(dpc')

\* A snapshot at `at` resolves; the control is looked up with `patterns` and,
\* when found, the browser call `op` on its ref is issued.
DMResolve(at, next, patterns, op, site, missing) ==
  /\ dpc = at
  /\ UNCHANGED <<crawlVars, unitVars>>
  /\ \E ok \in BOOLEAN, snapshot \in DMSnapshots :
       /\ IF ~ok THEN snapshot = <<>> /\ DMCatch("browser error")
          ELSE IF findRefByText(snapshot, patterns) = NoRef THEN DMCatch(missing)
          ELSE /\ dpc' = next
               /\ browserLog' = Append(browserLog,
                                       Call(op, site, findRefByText(snapshot, patterns)))
               /\ UNCHANGED <<dmState, decision, dmResult, onCompleteCalls, confirmCalls>>
       /\ dSnapshot' = IF dpc' = next THEN snapshot ELSE <<>>
  /\ inFlight' = inFlight - Settled(dpc) + Issued(dpc')

openDMDialog_snapshot ==
  DMResolve("openDMDialog_snapshot", "openDMDialog_click", MessageButtonPatterns,
            "click", "openDMDialog", "message button not found")

openDMDialog_click ==
  DMStep("openDMDialog_click", "openDMDialog_wait",
         Call("wait", "openDMDialog", NoRef), dmState.browserStatus)

\* browser.wait of openDMDialog() resolves; typeMessage() starts.
openDMDialog_wait ==
  DMStep("openDMDialog_wait", "typeMessage_snapshot",
         Call("snapshot", "typeMessage", NoRef), "typing")

typeMessage_snapshot ==
  DMResolve("typeMessage_snapshot", "typeMessage_type", MessageInputPatterns,
            "type", "typeMessage", "message input not found")

typeMessage_type ==
  DMStep("typeMessage_type", "typeMessage_wait",
         Call("wait", "typeMessage", NoRef), dmState.browserStatus)

typeMessage_wait ==
  DMStep("typeMessage_wait", "takeConfirmationScreenshot",
         Call("screenshot", "takeConfirmationScreenshot", NoRef),
         dmState.browserStatus)

\* Faulty variant: the screenshot is not put into the state.
WaitingConfirmNoScreenshot(st, screenshot) ==
  [st EXCEPT !.browserStatus = "waiting_confirm"]

\* `updateState({browserStatus: "waiting_confirm", screenshotBase64})`
WaitingConfirm(st, screenshot) ==
  [st EXCEPT !.browserStatus = "waiting_confirm", !.screenshot = screenshot]

\* The screenshot resolves; the state goes to waiting_confirm and the
\* confirmation callback is called with it.
takeConfirmationScreenshot ==
  /\ dpc = "takeConfirmationScreenshot"
  /\ UNCHANGED <<crawlVars, unitVars>>
  /\ \E ok \in BOOLEAN :
       IF ~ok THEN DMCatch("browser error")
       ELSE /\ dpc' = "onConfirmationRequired"
            /\ dmState' = WaitingConfirm(dmState, "taken")
            /\ confirmCalls' = Append(confirmCalls, dmState')
            /\ UNCHANGED <<decision, browserLog, dmResult, onCompleteCalls>>
  /\ dSnapshot' = <<>>
  /\ inFlight' = inFlight - Settled(dpc) + Issued(dpc')

\* Faulty variant: the "edit" decision is not handled and falls through to the send.
DeclinedCancelOnly(d) == d = "cancel"

\* `decision === "cancel"` and `decision === "edit"`: sendDM() returns false.
Declined(d) == d = "cancel" \/ d = "edit"

\* onConfirmationRequired() resolves with a decision, or rejects.
onConfirmationRequired ==
  /\ dpc = "onConfirmationRequired"
  /\ UNCHANGED <<crawlVars, unitVars>>
  /\ \E ok \in BOOLEAN, d \in {"confirm", "cancel", "edit"} :
       IF ~ok THEN d = "confirm" /\ DMCatch("callback error")
       ELSE /\ decision' = d
            /\ IF Declined(d)
               THEN /\ dpc' = "done"
                    /\ onCompleteCalls' = Append(onCompleteCalls,
                                                 [success |-> FALSE, error |-> d])
                    /\ dmResult' = "false"
                    /\ UNCHANGED <<dmState, browserLog, confirmCalls>>
               ELSE /\ dpc' = "clickSendButton_snapshot"
                    /\ browserLog' = Append(browserLog,
                                            Call("snapshot", "clickSendButton", NoRef))
                    /\ UNCHANGED <<dmState, dmResult, onCompleteCalls, confirmCalls>>
  /\ dSnapshot' = <<>>
  /\ inFlight' = inFlight - Settled(dpc) + Issued(dpc')

clickSendButton_snapshot ==
  DMResolve("clickSendButton_snapshot", "clickSendButton_click", SendButtonPatterns,
            "click", "clickSendButton", "send button not found")

clickSendButton_click ==
  DMStep("clickSendButton_click", "clickSendButton_wait",
         Call("wait", "clickSendButton", NoRef), dmState.browserStatus)

\* browser.wait of clickSendButton() resolves; verifySent() starts.
clickSendButton_wait ==
  DMStep("clickSendButton_wait", "verifySent_wait",
         Call("wait", "verifySent", NoRef), dmState.browserStatus)

verifySent_wait ==
  DMStep("verifySent_wait", "verifySent_snapshot",
         Call("snapshot", "verifySent", NoRef), dmState.browserStatus)

\* The snapshot of verifySent() resolves: whether or not the message shows,
\* verifySent() returns and sendDM() reports success.
verifySent_snapshot ==
  /\ dpc = "verifySent_snapshot"
  /\ UNCHANGED <<crawlVars, unitVars>>
  /\ \E ok \in BOOLEAN, seen \in BOOLEAN :
       IF ~ok THEN seen /\ DMCatch("browser error")
       ELSE /\ dpc' = "done"
            /\ onCompleteCalls' = Append(onCompleteCalls,
                                         [success |-> TRUE, error |-> "none"])
            /\ dmResult' = "true"
            /\ UNCHANGED <<dmState, decision, browserLog, confirmCalls>>
  /\ dSnapshot' = <<>>
  /\ inFlight' = inFlight - Settled(dpc) + Issued(dpc')

DMNext ==
  \/ sendDM
  \/ navigateToProfile_navigate
  \/ navigateToProfile_wait
  \/ navigateToProfile_snapshot
  \/ openDMDialog_snapshot
  \/ openDMDialog_click
  \/ openDMDialog_wait
  \/ typeMessage_snapshot
  \/ typeMessage_type
  \/ typeMessage_wait
  \/ takeConfirmationScreenshot
  \/ onConfirmationRequired
  \/ clickSendButton_snapshot
  \/ clickSendButton_click
  \/ clickSendButton_wait
  \/ verifySent_wait
  \/ verifySent_snapshot

(***************************************************************************)
(* ProfileAnalyzer. The text a language model returns is a sequence of     *)
(* pieces: prose, a code fence, a brace, a comma or one member of a JSON   *)
(* object.                                                                 *)
(***************************************************************************)
MemberTokens ==
  {"isLikelyOwner:true", "isLikelyOwner:false", "confidence:high", "score:8",
   "score:9", "reasons:[]", "dmOptions:[]", "shouldSkip:false",
   "shouldSkip:true"}

MemberKey(m) ==
  CASE m \in {"isLikelyOwner:true", "isLikelyOwner:false"} -> "isLikelyOwner"
    [] m = "confidence:high" -> "confidence"
    [] m \in {"score:8", "score:9"} -> "score"
    [] m = "reasons:[]" -> "reasons"
    [] m = "dmOptions:[]" -> "dmOptions"
    [] m \in {"shouldSkip:false", "shouldSkip:true"} -> "shouldSkip"

MemberValue(m) ==
  CASE m \in {"isLikelyOwner:true", "shouldSkip:true"} -> TRUE
    [] m \in {"isLikelyOwner:false", "shouldSkip:false"} -> FALSE
    [] m = "confidence:high" -> "high"
    [] m = "score:8" -> 8
    [] m = "score:9" -> 9
    [] m \in {"reasons:[]", "dmOptions:[]"} -> <<>>

\* The text of a JSON object with the members ms.
RECURSIVE Members(_)
Members(ms) ==
  IF Len(ms) <= 1 THEN ms
  ELSE <<Head(ms), ",">> \o Members(Tail(ms))

Object(ms) == <<"{">> \o Members(ms) \o <<"}">>

OwnerVerdict ==
  <<"isLikelyOwner:true", "confidence:high", "score:8", "reasons:[]",
    "dmOptions:[]", "shouldSkip:false">>

SkipVerdict ==
  <<"isLikelyOwner:false", "confidence:high", "score:8", "reasons:[]",
    "dmOptions:[]", "shouldSkip:true">>

\* Response texts: no text, prose only, a complete verdict bare, fenced and
\* within prose, objects that lack members, braces around prose, a trailing
\* comma, an unclosed object, braces in the wrong order, two objects.
LLMContents ==
  {<<>>,
   <<"prose">>,
   Object(OwnerVerdict),
   Object(SkipVerdict),
   <<"fence">> \o Object(OwnerVerdict) \o <<"fence">>,
   <<"prose">> \o Object(SkipVerdict) \o <<"prose">>,
   Object(<<>>),
   Object(<<"score:8">>),
   Object(<<"isLikelyOwner:true", "score:8", "shouldSkip:false">>),
   Object(<<"shouldSkip:true", "shouldSkip:false">>),
   <<"{", "prose", "}">>,
   <<"{", "score:8", ",", "}">>,
   <<"{", "score:8">>,
   <<"}", "{">>,
   Object(OwnerVerdict) \o <<"prose">> \o Object(<<"score:8">>)}

\* The call rejects, or resolves with a response of the given text.
LLMOutcomes ==
  {[error |-> TRUE, content |-> <<>>]}
    \cup {[error |-> FALSE, content |-> c] : c \in LLMContents}

\* Biographies: none, "Hair Salon", "OWNER", "nails", and the Chinese words
\* for store manager ("dian" "zhang"), founder ("chuang" "ban") and
\* hairdressing ("mei" "fa"), one piece per character.
Biographies ==
  {<<>>,
   <<"H","a","i","r"," ","S","a","l","o","n">>,
   <<"O","W","N","E","R">>,
   <<"n","a","i","l","s">>,
   <<"dian","zhang">>,
   <<"chuang","ban">>,
   <<"mei","fa">>}

Profiles == [username : {"u1"}, biography : Biographies]

\* `content.match(/\{[\s\S]*\}/)`: from the first opening brace to the last
\* closing brace after it; <<>> when there is none.
jsonMatch(content) ==
  LET opens == {i \in 1..Len(content) : content[i] = "{"}
      first == CHOOSE i \in opens : \A j \in opens : i <= j
      closes == {j \in 1..Len(content) : content[j] = "}" /\ j > first}
      last == CHOOSE j \in closes : \A k \in closes : k <= j
  IN IF opens = {} \/ closes = {} THEN <<>>
     ELSE <<SubSeq(content, first, last)>>

\* JSON.parse does not throw on the text t.
JSONValid(t) ==
  /\ Len(t) >= 2
  /\ t[1] = "{"
  /\ t[Len(t)] = "}"
  /\ Len(t) > 2 => Len(t) % 2 = 1
  /\ \A i \in 2..(Len(t) - 1) :
       IF i % 2 = 0 THEN t[i] \in MemberTokens ELSE t[i] = ","

\* The value of JSON.parse on a text it does not throw on: the last member
\* of a name gives its value.
JSONParse(t) ==
  LET at == {i \in 2..(Len(t) - 1) : i % 2 = 0}
      keys == {MemberKey(t[i]) : i \in at}
      lastOf(k) == CHOOSE i \in at :
                     /\ MemberKey(t[i]) = k
                     /\ \A j \in at : MemberKey(t[j]) = k => j <= i
  IN [k \in keys |-> MemberValue(t[lastOf(k)])]

\* The keywords of createFallbackAnalysis() of analyzer.ts.
OwnerKeywords ==
  {<<"dian","zhang">>, <<"chuang","ban">>, <<"o","w","n","e","r">>,
   <<"s","a","l","o","n">>, <<"mei","fa">>, <<"h","a","i","r">>}

\* createFallbackAnalysis() of analyzer.ts
createFallbackAnalysis(profile) ==
  LET bio == toLowerCase(profile.biography)
      isLikelyOwner == \E k \in OwnerKeywords : includes(bio, k)
  IN [isLikelyOwner |-> isLikelyOwner,
      confidence |-> "low",
      score |-> IF isLikelyOwner THEN 5 ELSE 2,
      reasons |-> <<"manual review">>,
      contactMethods |-> <<>>,
      dmOptions |-> <<>>,
      shouldSkip |-> ~isLikelyOwner,
      skipReason |-> IF isLikelyOwner THEN <<>> ELSE <<"not confirmed">>]

\* The keywords of createFallbackAnalysis() of dm-sender.ts.
ScrapedOwnerKeywords ==
  {<<"dian","zhang">>, <<"chuang","ban">>, <<"o","w","n","e","r">>,
   <<"s","a","l","o","n">>}

\* createFallbackAnalysis() of dm-sender.ts: the data of an analysis, with
\* neither a confidence nor a shouldSkip member.
createScrapedFallbackAnalysis(profile) ==
  LET bio == toLowerCase(profile.biography)
      isLikelyOwner == \E k \in ScrapedOwnerKeywords : includes(bio, k)
  IN [score |-> IF isLikelyOwner THEN 5 ELSE 2,
      isLikelyOwner |-> isLikelyOwner,
      ownerConfidence |-> "low",
      reasons |-> <<"manual review">>,
      dmOptions |-> <<>>]

AnalyzerInit ==
  /\ apc = "idle"
  /\ analyzer = "none"
  /\ aProfile = <<>>
  /\ llm = <<>>
  /\ aResult = [settled |-> "pending", value |-> <<>>]

Resolved(v) == [settled |-> "resolved", value |-> <<v>>]
Rejected == [settled |-> "rejected", value |-> <<>>]

\* analyzeProfile() of either class is called: the prompt is built and the
\* request to the language model is issued.
analyzeProfile ==
  /\ apc = "idle"
  /\ \E a \in {"openai", "anthropic"}, p \in Profiles :
       /\ analyzer' = a
       /\ aProfile' = <<p>>
       /\ apc' = IF a = "openai" THEN "chat_completions_create"
                                 ELSE "messages_create"
  /\ UNCHANGED <<notAnalyzerVars, llm, aResult>>

\* analyzer.ts: `client.chat.completions.create` has settled.
analyzeProfile_chat_completions_create ==
  /\ apc = "chat_completions_create"
  /\ \E o \in LLMOutcomes :
       LET m == jsonMatch(o.content)
       IN /\ llm' = <<o>>
          /\ aResult' =
               IF o.error \/ m = <<>> \/ ~JSONValid(m[1])
               THEN Resolved(createFallbackAnalysis(aProfile[1]))
               ELSE Resolved(JSONParse(m[1]))
  /\ apc' = "done"
  /\ UNCHANGED <<notAnalyzerVars, analyzer, aProfile>>

\* The members analyzeProfile() of dm-sender.ts copies from the data.
ScrapedMembers ==
  {"score", "isLikelyOwner", "ownerConfidence", "reasons", "contactMethods",
   "businessSignals"}

\* analyzeProfile() of dm-sender.ts after the response: the data parsed
\* from the text, or the fallback when there is no object or it does not
\* parse.
AnalysisData(profile, content) ==
  LET m == jsonMatch(content)
  IN IF m = <<>> \/ ~JSONValid(m[1])
     THEN createScrapedFallbackAnalysis(profile)
     ELSE JSONParse(m[1])

\* The ProfileAnalysis analyzeProfile() of dm-sender.ts returns. A member
\* the data lacks is undefined in the analysis, which the record shows by
\* not having it.
ProfileAnalysis(profile, data) ==
  [k \in (DOMAIN data \cap ScrapedMembers) \cup {"id", "profile", "dmOptions"} |->
     CASE k = "id" -> profile.username
       [] k = "profile" -> profile
       [] k = "dmOptions" -> <<>>
       [] OTHER -> data[k]]

\* dm-sender.ts: `client.messages.create` has settled. A rejection is not
\* caught.
analyzeProfile_messages_create ==
  /\ apc = "messages_create"
  /\ \E o \in LLMOutcomes :
       /\ llm' = <<o>>
       /\ aResult' =
            IF o.error THEN Rejected
            ELSE Resolved(ProfileAnalysis(aProfile[1],
                                          AnalysisData(aProfile[1], o.content)))
  /\ apc' = "done"
  /\ UNCHANGED <<notAnalyzerVars, analyzer, aProfile>>

AnalyzerNext ==
  \/ analyzeProfile
  \/ analyzeProfile_chat_completions_create
  \/ analyzeProfile_messages_create

(***************************************************************************)
(* parseCount(): the method of InstagramCrawler (demo.ts) and the function *)
(* of the script crawler (real-crawler.ts). A count text is a sequence of  *)
(* characters; "wan" stands for the Chinese character for ten thousand.    *)
(***************************************************************************)
MaxCount == 2000000000

Digits == <<"0","1","2","3","4","5","6","7","8","9">>

IsDigit(c) == \E i \in 1..10 : Digits[i] = c

DigitValue(c) == (CHOOSE i \in 1..10 : Digits[i] = c) - 1

\* The number a sequence of digits denotes.
RECURSIVE DecimalValue(_)
DecimalValue(ds) ==
  IF ds = <<>> THEN 0
  ELSE DecimalValue(SubSeq(ds, 1, Len(ds) - 1)) * 10 + DigitValue(ds[Len(ds)])

RECURSIVE Pow10(_)
Pow10(k) == IF k = 0 THEN 1 ELSE 10 * Pow10(k - 1)

\* The length of the longest run of characters of the set cs from index i.
RECURSIVE RunLength(_, _, _)
RunLength(t, i, cs) ==
  IF i > Len(t) \/ t[i] \notin cs THEN 0 ELSE 1 + RunLength(t, i + 1, cs)

DigitSet == {Digits[i] : i \in 1..10}

\* String.prototype.toUpperCase on one character.
UpperChar(c) ==
  IF \E i \in 1..26 : LowerCaseLetters[i] = c
  THEN UpperCase[CHOOSE i \in 1..26 : LowerCaseLetters[i] = c]
  ELSE c

\* `countStr.replace(/,/g, "")`
RemoveCommas(t) == SelectSeq(t, LAMBDA c : c # ",")

\* String.prototype.trim
trim(t) ==
  LET kept == {i \in 1..Len(t) : t[i] # " "}
      lo == CHOOSE i \in kept : \A j \in kept : i <= j
      hi == CHOOSE i \in kept : \A j \in kept : j <= i
  IN IF kept = {} THEN <<>> ELSE SubSeq(t, lo, hi)

\* `cleaned.match(/(\d+(?:\.\d+)?)\s*([KMkm])?/)`: the first run of digits,
\* a fraction when a dot and a digit follow, then white space and a letter
\* of K, M, k, m when one follows; <<>> when the text has no digit.
CountMatch(t) ==
  LET starts == {i \in 1..Len(t) : IsDigit(t[i])}
      i == CHOOSE k \in starts : \A j \in starts : k <= j
      il == RunLength(t, i, DigitSet)
      dot == i + il
      hasFrac == dot + 1 <= Len(t) /\ t[dot] = "." /\ IsDigit(t[dot + 1])
      fl == IF hasFrac THEN RunLength(t, dot + 1, DigitSet) ELSE 0
      after == IF hasFrac THEN dot + 1 + fl ELSE dot
      letter == after + RunLength(t, after, {" "})
  IN IF starts = {} THEN <<>>
     ELSE <<[int |-> SubSeq(t, i, i + il - 1),
             frac |-> IF hasFrac THEN SubSeq(t, dot + 1, dot + fl) ELSE <<>>,
             letter |-> IF letter <= Len(t) /\ t[letter] \in {"K", "M", "k", "m"}
                        THEN <<t[letter]>> ELSE <<>>]>>

\* parseFloat on a text that starts with digits: the digits and the fraction
\* that follows them, as a numerator and a denominator.
parseFloat(t) ==
  LET il == RunLength(t, 1, DigitSet)
      hasFrac == il + 2 <= Len(t) /\ t[il + 1] = "." /\ IsDigit(t[il + 2])
      fl == IF hasFrac THEN RunLength(t, il + 2, DigitSet) ELSE 0
  IN [num |-> DecimalValue(SubSeq(t, 1, il) \o SubSeq(t, il + 2, il + 1 + fl)),
      den |-> Pow10(fl)]

\* `Math.round(num * multiplier)` for num = n.num / n.den: the nearest
\* integer, a half going up.
RoundTimes(n, multiplier) ==
  IF multiplier % n.den = 0 THEN n.num * (multiplier \div n.den)
  ELSE (2 * n.num * multiplier + n.den) \div (2 * n.den)

\* The lines of parseCount() the two versions share.
MultiplierMatch(cleaned) ==
  LET m == CountMatch(cleaned)
      num == parseFloat(m[1].int \o (IF m[1].frac = <<>> THEN <<>>
                                     ELSE <<".">> \o m[1].frac))
      multiplier == IF m[1].letter = <<>> THEN "" ELSE UpperChar(m[1].letter[1])
  IN IF m = <<>> THEN 0
     ELSE RoundTimes(num, CASE multiplier = "K" -> 1000
                            [] multiplier = "M" -> 1000000
                            [] OTHER -> 1)

\* InstagramCrawler.parseCount() of demo.ts
parseCount(countStr) == MultiplierMatch(trim(RemoveCommas(countStr)))

\* parseCount() of real-crawler.ts
parseCount_script(countStr) ==
  LET cleaned == trim(RemoveCommas(countStr))
  IN IF \E i \in 1..Len(cleaned) : cleaned[i] = "wan"
     THEN RoundTimes(parseFloat(SelectSeq(cleaned, LAMBDA c : c # "wan")), 10000)
     ELSE MultiplierMatch(cleaned)

\* Well-formed count texts: an integer part with or without thousands
\* separators, an optional fraction of one digit and a suffix.
IntParts ==
  {[text |-> <<"0">>, value |-> 0],
   [text |-> <<"8">>, value |-> 8],
   [text |-> <<"6","0">>, value |-> 60],
   [text |-> <<"1",",","2","3","4">>, value |-> 1234],
   [text |-> <<"1","2",",","3","4","5">>, value |-> 12345]}

FracParts ==
  {[text |-> <<>>, tenths |-> 0],
   [text |-> <<".","3">>, tenths |-> 3],
   [text |-> <<".","5">>, tenths |-> 5],
   [text |-> <<".","9">>, tenths |-> 9]}

Suffixes ==
  {[text |-> <<>>, times |-> 1],
   [text |-> <<"K">>, times |-> 1000],
   [text |-> <<"k">>, times |-> 1000],
   [text |-> <<"M">>, times |-> 1000000],
   [text |-> <<"m">>, times |-> 1000000],
   [text |-> <<"wan">>, times |-> 10000]}

WellFormedCounts ==
  {c \in [int : IntParts, frac : FracParts, suffix : Suffixes] :
     c.int.value < MaxCount \div c.suffix.times}

CountText(c) == c.int.text \o c.frac.text \o c.suffix.text

CountInit ==
  /\ cImpl = "none"
  /\ cInput = <<>>
  /\ cResult = <<>>

\* One call of parseCount() of demo.ts.
parseCount_call ==
  /\ cResult = <<>>
  /\ \E c \in WellFormedCounts :
       /\ cInput' = <<c>>
       /\ cResult' = <<parseCount(CountText(c))>>
  /\ cImpl' = "crawler"
  /\ UNCHANGED notCountVars

\* One call of parseCount() of real-crawler.ts.
parseCount_script_call ==
  /\ cResult = <<>>
  /\ \E c \in WellFormedCounts :
       /\ cInput' = <<c>>
       /\ cResult' = <<parseCount_script(CountText(c))>>
  /\ cImpl' = "script"
  /\ UNCHANGED notCountVars

CountNext ==
  \/ parseCount_call
  \/ parseCount_script_call

(***************************************************************************)
(* InstagramCrawler.extractProfileData() and its helpers. A snapshot is a  *)
(* sequence of characters with "\n" between its lines; a Chinese character *)
(* or an emoji is one character, written by a Latin name.                  *)
(***************************************************************************)
MaxProfileLines == 2

\* What `\s` and `[:\s]` match in the snapshots of the model.
WhiteSpace == {" ", "\n"}
ColonOrSpace == {":", " ", "\n"}

\* The pattern word w stands at index i of t; the patterns have the flag i.
MatchesAt(t, i, w) ==
  /\ i + Len(w) - 1 <= Len(t)
  /\ \A k \in 1..Len(w) : LowerChar(t[i + k - 1]) = LowerChar(w[k])

\* The length of the longest run of characters outside the set cs from i.
RECURSIVE RunLengthNot(_, _, _)
RunLengthNot(t, i, cs) ==
  IF i > Len(t) \/ t[i] \in cs THEN 0 ELSE 1 + RunLengthNot(t, i + 1, cs)

\* `(?:,\d+)*` from index i: the length of the groups of a comma and digits.
RECURSIVE CommaGroups(_, _)
CommaGroups(t, i) ==
  IF i + 1 <= Len(t) /\ t[i] = "," /\ IsDigit(t[i + 1])
  THEN LET dl == RunLength(t, i + 1, DigitSet)
       IN 1 + dl + CommaGroups(t, i + 1 + dl)
  ELSE 0

\* `\d+(?:,\d+)*` from index i, and with abbreviated `(?:\.\d+)?[KMkm]?`
\* after it: the length of the count text.
CountLength(t, i, abbreviated) ==
  LET il == RunLength(t, i, DigitSet)
      cl == CommaGroups(t, i + il)
      dot == i + il + cl
      hasFrac == abbreviated /\ dot + 1 <= Len(t) /\ t[dot] = "."
                   /\ IsDigit(t[dot + 1])
      fl == IF hasFrac THEN 1 + RunLength(t, dot + 1, DigitSet) ELSE 0
      letter == dot + fl
      ll == IF abbreviated /\ letter <= Len(t)
                 /\ t[letter] \in {"K", "M", "k", "m"}
            THEN 1 ELSE 0
  IN il + cl + fl + ll

\* `snapshot.match(/(count)\s*(?:word|...)/i)`: the count text of the
\* leftmost match, in <<>>; <<>> alone when nothing matches. No word starts
\* with a digit, a comma, a dot or one of K and M, so the count of a match
\* is the longest count text from its first digit.
CountBefore(t, words, abbreviated) ==
  LET endOf(i) == i + CountLength(t, i, abbreviated)
      starts == {i \in 1..Len(t) :
                   /\ IsDigit(t[i])
                   /\ \E w \in words :
                        MatchesAt(t, endOf(i) + RunLength(t, endOf(i), WhiteSpace), w)}
      first == CHOOSE i \in starts : \A j \in starts : i <= j
  IN IF starts = {} THEN <<>>
     ELSE <<SubSeq(t, first, endOf(first) - 1)>>

Min(a, b) == IF a <= b THEN a ELSE b

\* `/(?:label|...)[:\s]*([^\n]{least,most})/i` tried on t from index `from`:
\* the leftmost label, the labels in the order written, after which the text
\* is long enough; the colons and white space take as much as leaves the
\* text long enough. Gives <<>> or the match with its captured text.
LabelledMatch(t, from, labels, least, most) ==
  LET skipped(p, a) == RunLength(t, p + Len(labels[a]), ColonOrSpace)
      textAt(p, a, j) == p + Len(labels[a]) + j
      fits(p, a) == {j \in 0..skipped(p, a) :
                       RunLengthNot(t, textAt(p, a, j), {"\n"}) >= least}
      found == {m \in (from..Len(t)) \X DOMAIN labels :
                  MatchesAt(t, m[1], labels[m[2]]) /\ fits(m[1], m[2]) # {}}
      best == CHOOSE m \in found :
                \A n \in found : m[1] < n[1] \/ (m[1] = n[1] /\ m[2] <= n[2])
      j == CHOOSE k \in fits(best[1], best[2]) :
             \A l \in fits(best[1], best[2]) : l <= k
      textStart == textAt(best[1], best[2], j)
      len == Min(RunLengthNot(t, textStart, {"\n"}), most)
  IN IF found = {} THEN <<>>
     ELSE <<[last |-> textStart + len - 1, text |-> SubSeq(t, textStart, textStart + len - 1)]>>

\* `snapshot.matchAll(/.../gi)`, the first n matches: each search goes on
\* after the end of the match before.
RECURSIVE LabelledMatches(_, _, _, _, _, _)
LabelledMatches(t, from, labels, least, most, n) ==
  LET m == LabelledMatch(t, from, labels, least, most)
  IN IF n = 0 \/ m = <<>> THEN <<>>
     ELSE <<m[1].text>> \o
          LabelledMatches(t, m[1].last + 1, labels, least, most, n - 1)

\* `/(?:link|...)[:\s]*(https?:\/\/[^\s\]"]+)/i`: the length of the URL that
\* starts at index k, 0 when none does.
UrlLength(t, k) ==
  LET scheme == IF MatchesAt(t, k, <<"h","t","t","p","s",":","/","/">>) THEN 8
                ELSE IF MatchesAt(t, k, <<"h","t","t","p",":","/","/">>) THEN 7
                ELSE 0
      run == RunLengthNot(t, k + scheme, {" ", "\n", "]", "\""})
  IN IF scheme = 0 \/ run = 0 THEN 0 ELSE scheme + run

\* `snapshot.match(/(?:link|...)[:\s]*(https?:\/\/[^\s\]"]+)/i)?.[1]`
urlMatch(t) ==
  LET labels == <<<<"l","i","n","k">>, <<"lian","jie">>>>
      urlAt(p, a) == p + Len(labels[a])
                       + RunLength(t, p + Len(labels[a]), ColonOrSpace)
      found == {m \in (1..Len(t)) \X DOMAIN labels :
                  /\ MatchesAt(t, m[1], labels[m[2]])
                  /\ UrlLength(t, urlAt(m[1], m[2])) > 0}
      best == CHOOSE m \in found :
                \A n \in found : m[1] < n[1] \/ (m[1] = n[1] /\ m[2] <= n[2])
      textStart == urlAt(best[1], best[2])
  IN IF found = {} THEN <<>>
     ELSE <<SubSeq(t, textStart, textStart + UrlLength(t, textStart) - 1)>>

\* extractFullName(): `snapshot.match(/heading[:\s]+"([^"]+)"/i)?.[1]`
extractFullName(t) ==
  LET heading == <<"h","e","a","d","i","n","g">>
      quote(p) == p + Len(heading) + RunLength(t, p + Len(heading), ColonOrSpace)
      name(p) == RunLengthNot(t, quote(p) + 1, {"\""})
      found == {p \in 1..Len(t) :
                  /\ MatchesAt(t, p, heading)
                  /\ quote(p) > p + Len(heading)
                  /\ quote(p) <= Len(t)
                  /\ t[quote(p)] = "\""
                  /\ name(p) >= 1
                  /\ quote(p) + name(p) + 1 <= Len(t)}
      first == CHOOSE p \in found : \A q \in found : p <= q
  IN IF found = {} THEN <<>>
     ELSE <<SubSeq(t, quote(first) + 1, quote(first) + name(first))>>

\* `snapshot.split("\n")`
RECURSIVE split(_)
split(t) ==
  LET n == RunLengthNot(t, 1, {"\n"})
  IN IF n >= Len(t) THEN <<t>>
     ELSE <<SubSeq(t, 1, n)>> \o split(SubSeq(t, n + 2, Len(t)))

\* extractBioFromSnapshot(): the tokens are three emoji, the Chinese word
\* for booking, "Line", "salon" and "hair".
extractBioFromSnapshot(t) ==
  LET lines == split(t)
      tokens == {<<"pin">>, <<"haircut">>, <<"sparkles">>, <<"yu","yue">>,
                 <<"L","i","n","e">>, <<"s","a","l","o","n">>,
                 <<"h","a","i","r">>}
      bios == {i \in DOMAIN lines :
                 /\ Len(lines[i]) > 30
                 /\ Len(lines[i]) < 500
                 /\ \E k \in tokens : includes(lines[i], k)}
  IN IF bios = {} THEN <<>>
     ELSE trim(lines[CHOOSE i \in bios : \A j \in bios : i <= j])

\* extractBusinessCategory(): the trimmed text in <<>>, <<>> alone for
\* undefined.
extractBusinessCategory(t) ==
  LET m == LabelledMatch(t, 1, <<<<"c","a","t","e","g","o","r","y">>,
                                 <<"lei","bie">>>>, 5, 50)
  IN IF m = <<>> THEN <<>> ELSE <<trim(m[1].text)>>

\* `followersMatch?.[1] || "0"` given to parseCount()
CountOr0(m) == parseCount(IF m = <<>> THEN <<"0">> ELSE m[1])

\* Faulty variant: "Contact" is not a marker.
isBusinessAccountNoContact(t) ==
  \/ includes(t, <<"P","r","o","f","e","s","s","i","o","n","a","l"," ",
                   "d","a","s","h","b","o","a","r","d">>)
  \/ includes(t, <<"zhuan","ye","yi","biao","ban">>)
  \/ includes(t, <<"lian","luo">>)

\* `const isBusinessAccount = snapshot.includes(...) || ...`
isBusinessAccount(t) ==
  \/ includes(t, <<"P","r","o","f","e","s","s","i","o","n","a","l"," ",
                   "d","a","s","h","b","o","a","r","d">>)
  \/ includes(t, <<"zhuan","ye","yi","biao","ban">>)
  \/ includes(t, <<"C","o","n","t","a","c","t">>)
  \/ includes(t, <<"lian","luo">>)

\* Faulty variant: without a heading the name is empty.
fullNameNoDefault(uname, t) ==
  IF extractFullName(t) = <<>> THEN <<>> ELSE extractFullName(t)[1]

\* `this.extractFullName(snapshot) || username`
fullName(uname, t) ==
  IF extractFullName(t) = <<>> THEN uname ELSE extractFullName(t)[1]

\* `bioMatch?.[1]?.trim() || this.extractBioFromSnapshot(snapshot)`
biography(t) ==
  LET bioMatch == LabelledMatch(t, 1, <<<<"b","i","o","g","r","a","p","h","y">>,
                                        <<"b","i","o">>,
                                        <<"ge","ren","jian","jie">>>>, 10, 300)
  IN IF bioMatch = <<>> \/ trim(bioMatch[1].text) = <<>>
     THEN extractBioFromSnapshot(t)
     ELSE trim(bioMatch[1].text)

\* extractProfileData(): an optional member is <<>> when undefined.
extractProfileData(uname, snapshot) ==
  [username |-> uname,
   fullName |-> fullName(uname, snapshot),
   biography |-> biography(snapshot),
   followersCount |->
     CountOr0(CountBefore(snapshot,
                          {<<"f","o","l","l","o","w","e","r","s">>,
                           <<"zhui","zong","zhe">>,
                           <<"wei","zhui","zong","zhe">>}, TRUE)),
   followsCount |->
     CountOr0(CountBefore(snapshot,
                          {<<"f","o","l","l","o","w","i","n","g">>,
                           <<"zhui","zong","zhong">>}, TRUE)),
   postsCount |->
     CountOr0(CountBefore(snapshot,
                          {<<"p","o","s","t","s">>, <<"tie","wen">>}, FALSE)),
   isBusinessAccount |-> isBusinessAccount(snapshot),
   businessCategory |-> extractBusinessCategory(snapshot),
   externalUrl |-> urlMatch(snapshot),
   profileUrl |->
     <<"h","t","t","p","s",":","/","/","w","w","w",".","i","n","s","t","a",
       "g","r","a","m",".","c","o","m","/">> \o uname \o <<"/">>,
   recentPostCaptions |->
     LabelledMatches(snapshot, 1,
                     <<<<"c","a","p","t","i","o","n">>, <<"shuo","ming">>,
                       <<"tie","wen">>>>, 20, 200, 3),
   rawSnapshot |-> snapshot]

\* The lines a profile page snapshot is made of, each with the member of
\* the profile it shows and the value shown (a number or a text).
ProfileLine(text, field, num, str) ==
  [text |-> text, field |-> field, num |-> num, str |-> str]

ProfileLines ==
  {\* heading "Amy"
   ProfileLine(
    <<"h","e","a","d","i","n","g"," ","\"","A","m","y","\"">>,
    "fullName", 0,
    <<"A","m","y">>),
   \* 12,345 followers
   ProfileLine(
    <<"1","2",",","3","4","5"," ","f","o","l","l","o","w","e","r","s">>,
    "followersCount", 12345,
    <<>>),
   \* 8.9K followers
   ProfileLine(
    <<"8",".","9","K"," ","f","o","l","l","o","w","e","r","s">>,
    "followersCount", 8900,
    <<>>),
   \* 60.3wan zhui zong zhe 
   ProfileLine(
    <<"6","0",".","3","wan"," ","zhui","zong","zhe">>,
    "none", 0,
    <<>>),
   \* 1,234 wei zhui zong zhe 
   ProfileLine(
    <<"1",",","2","3","4"," ","wei","zhui","zong","zhe">>,
    "followersCount", 1234,
    <<>>),
   \* 423 following
   ProfileLine(
    <<"4","2","3"," ","f","o","l","l","o","w","i","n","g">>,
    "followsCount", 423,
    <<>>),
   \* 892 posts
   ProfileLine(
    <<"8","9","2"," ","p","o","s","t","s">>,
    "postsCount", 892,
    <<>>),
   \* bio: Hair stylist Amy
   ProfileLine(
    <<"b","i","o",":"," ","H","a","i","r"," ","s","t","y","l","i","s","t",
      " ","A","m","y">>,
    "biography", 0,
    <<"H","a","i","r"," ","s","t","y","l","i","s","t"," ","A","m","y">>),
   \* bio: short
   ProfileLine(
    <<"b","i","o",":"," ","s","h","o","r","t">>,
    "none", 0,
    <<>>),
   \* Contact
   ProfileLine(
    <<"C","o","n","t","a","c","t">>,
    "isBusinessAccount", 0,
    <<>>),
   \* zhuan ye yi biao ban 
   ProfileLine(
    <<"zhuan","ye","yi","biao","ban">>,
    "isBusinessAccount", 0,
    <<>>),
   \* link: https://a.co
   ProfileLine(
    <<"l","i","n","k",":"," ","h","t","t","p","s",":","/","/","a",".","c",
      "o">>,
    "externalUrl", 0,
    <<"h","t","t","p","s",":","/","/","a",".","c","o">>),
   \* caption: New balayage looks today
   ProfileLine(
    <<"c","a","p","t","i","o","n",":"," ","N","e","w"," ","b","a","l","a",
      "y","a","g","e"," ","l","o","o","k","s"," ","t","o","d","a","y">>,
    "caption", 0,
    <<"N","e","w"," ","b","a","l","a","y","a","g","e"," ","l","o","o","k",
      "s"," ","t","o","d","a","y">>),
   \* category: Salon
   ProfileLine(
    <<"c","a","t","e","g","o","r","y",":"," ","S","a","l","o","n">>,
    "businessCategory", 0,
    <<"S","a","l","o","n">>),
   \* Best salon in town, open daily 9-6
   ProfileLine(
    <<"B","e","s","t"," ","s","a","l","o","n"," ","i","n"," ","t","o","w",
      "n",","," ","o","p","e","n"," ","d","a","i","l","y"," ","9","-","6">>,
    "bioline", 0,
    <<"B","e","s","t"," ","s","a","l","o","n"," ","i","n"," ","t","o","w",
      "n",","," ","o","p","e","n"," ","d","a","i","l","y"," ","9","-","6">>),
   \* Follow
   ProfileLine(
    <<"F","o","l","l","o","w">>,
    "none", 0,
    <<>>),
   \* Professional dashboard
   ProfileLine(
    <<"P","r","o","f","e","s","s","i","o","n","a","l"," ","d","a","s","h",
      "b","o","a","r","d">>,
    "isBusinessAccount", 0,
    <<>>),
   \* lian luo
   ProfileLine(
    <<"lian","luo">>,
    "isBusinessAccount", 0,
    <<>>)}

RECURSIVE ProfileLinesUpTo(_)
ProfileLinesUpTo(n) ==
  IF n = 0 THEN {<<>>}
  ELSE LET shorter == ProfileLinesUpTo(n - 1)
       IN shorter \cup
          {Append(sq, l) : sq \in {x \in shorter : Len(x) = n - 1},
                           l \in ProfileLines}

ProfileSnapshots == ProfileLinesUpTo(MaxProfileLines)

\* The text of a snapshot: its lines with "\n" between them.
RECURSIVE SnapshotText(_)
SnapshotText(lines) ==
  IF lines = <<>> THEN <<>>
  ELSE IF Len(lines) = 1 THEN lines[1].text
  ELSE lines[1].text \o <<"\n">> \o SnapshotText(Tail(lines))

ExtractInit ==
  /\ eLines = <<>>
  /\ eOrder = <<>>
  /\ eResult = <<>>
  /\ eReordered = <<>>

\* A call of extractProfileData() on a snapshot.
extractProfileData_call ==
  /\ eResult = <<>>
  /\ \E lines \in ProfileSnapshots :
       /\ eLines' = lines
       /\ eResult' = <<extractProfileData(<<"u","1">>, SnapshotText(lines))>>
  /\ UNCHANGED <<notExtractVars, eOrder, eReordered>>

\* A call of extractProfileData() on the same lines in another order.
extractProfileData_reordered ==
  /\ eResult # <<>>
  /\ eReordered = <<>>
  /\ \E order \in Permutations(DOMAIN eLines) :
       /\ eOrder' = order
       /\ eReordered' =
            <<extractProfileData(<<"u","1">>,
                                 SnapshotText([i \in DOMAIN eLines |->
                                                 eLines[order[i]]]))>>
  /\ UNCHANGED <<notExtractVars, eLines, eResult>>

ExtractNext ==
  \/ extractProfileData_call
  \/ extractProfileData_reordered

(***************************************************************************)
(* LeadFinderWorkflow.run() with ProfileAnalyzer.analyzeProfiles()         *)
(* (workflow.ts, dm-sender.ts). The Apify client and the language model    *)
(* are the environment: each of their calls resolves or rejects.           *)
(***************************************************************************)
MaxDataset == 3

\* The ScrapedProfile items a profile dataset holds: a public business
\* account within the follower limits, a private one, one below and one
\* above the limits, a personal account of another category, a personal
\* account of a matching category.
ScrapedProfiles ==
  {[username |-> "salon", private |-> FALSE, followersCount |-> 2,
    isBusinessAccount |-> TRUE, businessCategoryName |-> <<>>,
    biography |-> <<"H","a","i","r"," ","S","a","l","o","n">>],
   [username |-> "private", private |-> TRUE, followersCount |-> 2,
    isBusinessAccount |-> TRUE, businessCategoryName |-> <<>>,
    biography |-> <<"O","W","N","E","R">>],
   [username |-> "small", private |-> FALSE, followersCount |-> 1,
    isBusinessAccount |-> TRUE, businessCategoryName |-> <<>>,
    biography |-> <<>>],
   [username |-> "large", private |-> FALSE, followersCount |-> 4,
    isBusinessAccount |-> TRUE, businessCategoryName |-> <<>>,
    biography |-> <<>>],
   [username |-> "blog", private |-> FALSE, followersCount |-> 3,
    isBusinessAccount |-> FALSE,
    businessCategoryName |-> <<"B","l","o","g">>,
    biography |-> <<"n","a","i","l","s">>],
   [username |-> "stylist", private |-> FALSE, followersCount |-> 3,
    isBusinessAccount |-> FALSE,
    businessCategoryName |-> <<"H","a","i","r"," ","S","a","l","o","n">>,
    biography |-> <<>>]}

RECURSIVE DatasetsUpTo(_)
DatasetsUpTo(n) ==
  IF n = 0 THEN {<<>>}
  ELSE LET shorter == DatasetsUpTo(n - 1)
       IN shorter \cup
          {Append(d, p) : d \in {x \in shorter : Len(x) = n - 1},
                          p \in ScrapedProfiles}

\* The ownerUsername of the items a post dataset holds.
PostOwners ==
  {<<>>, <<"salon">>, <<"salon", "salon">>, <<"salon", "blog">>,
   <<"blog", "salon", "blog">>}

\* The LeadFinderConfig of the workflow: with or without businessCategories.
LeadFinderConfigs ==
  [minFollowers : {2}, maxFollowers : {3}, maxProfiles : {1},
   businessCategories : {<<>>, <<<<"s","a","l","o","n">>>>}]

\* What `client.messages.create` settles with in a batch: a rejection, a
\* text without an object, objects with a score, an object without one.
BatchOutcomes ==
  {[error |-> TRUE, content |-> <<>>],
   [error |-> FALSE, content |-> <<"prose">>],
   [error |-> FALSE, content |-> Object(<<"isLikelyOwner:true", "score:8">>)],
   [error |-> FALSE, content |-> Object(<<"isLikelyOwner:false", "score:9">>)],
   [error |-> FALSE, content |-> Object(<<"isLikelyOwner:true">>)]}

\* `[...new Set(names)]`: the first occurrence of each name, in order.
RECURSIVE Unique(_)
Unique(names) ==
  IF names = <<>> THEN <<>>
  ELSE LET front == Unique(SubSeq(names, 1, Len(names) - 1))
           last == names[Len(names)]
       IN IF \E i \in DOMAIN front : front[i] = last THEN front
          ELSE Append(front, last)

\* `Array.prototype.slice(0, n)`
slice0(sq, n) == SubSeq(sq, 1, IF n < Len(sq) THEN n ELSE Len(sq))

\* Faulty variant: private accounts are kept.
KeepsPrivateProfile(p, cfg) ==
  /\ ~(p.followersCount < cfg.minFollowers)
  /\ ~(p.followersCount > cfg.maxFollowers)

\* The callback of `profiles.filter` of scrapeProfiles().
KeepsProfile(p, cfg) ==
  /\ ~p.private
  /\ ~(p.followersCount < cfg.minFollowers)
  /\ ~(p.followersCount > cfg.maxFollowers)
  /\ Len(cfg.businessCategories) > 0 =>
       \/ \E i \in DOMAIN cfg.businessCategories :
            includes(toLowerCase(p.businessCategoryName),
                     toLowerCase(cfg.businessCategories[i]))
       \/ p.isBusinessAccount

\* Faulty variant: a failed analysis still recommends the profile.
MinimalAnalysisAsOwner(profile) ==
  [id |-> profile.username, profile |-> profile, score |-> 6,
   isLikelyOwner |-> TRUE, dmOptions |-> <<>>]

\* The analysis analyzeProfiles() pushes for a profile whose analysis threw.
MinimalAnalysis(profile) ==
  [id |-> profile.username,
   profile |-> profile,
   score |-> 0,
   isLikelyOwner |-> FALSE,
   ownerConfidence |-> "low",
   reasons |-> <<"analysis failed">>,
   contactMethods |-> <<>>,
   businessSignals |-> <<>>,
   dmOptions |-> <<>>]

\* `analyses.sort((a, b) => b.score - a.score)`: the arrays the sort can
\* leave. With a number as every score the sort is stable and descending.
\* With a score undefined the comparator gives NaN, it is not a consistent
\* comparator and the order is implementation-defined.
SortedByScore(analyses) ==
  LET n == Len(analyses)
      consistent == \A i \in 1..n : "score" \in DOMAIN analyses[i]
      before(i, j) ==
        \/ analyses[i].score > analyses[j].score
        \/ analyses[i].score = analyses[j].score /\ i < j
      orders == IF consistent
                THEN {p \in Permutations(1..n) :
                        \A i, j \in 1..n : i < j => before(p[i], p[j])}
                ELSE Permutations(1..n)
  IN {[i \in 1..n |-> analyses[p[i]]] : p \in orders}

\* `sortedAnalyses.filter((a) => a.score >= 6)`
Recommended(sorted) ==
  SelectSeq(sorted, LAMBDA a : "score" \in DOMAIN a /\ a.score >= 6)

\* createInitialState() of the workflow; the status message is its kind.
createInitialWorkflowState ==
  [step |-> "idle", status |-> "ready", totalProfiles |-> 0,
   processedProfiles |-> 0, analyzedProfiles |-> <<>>]

WorkflowInit ==
  /\ wpc = "idle"
  /\ wConfig = <<>>
  /\ wState = createInitialWorkflowState
  /\ wSteps = <<>>
  /\ wRequested = <<>>
  /\ wDataset = <<>>
  /\ wProfiles = <<>>
  /\ wOutcomes = <<>>
  /\ wAnalyzerCalls = <<>>
  /\ wResults = <<>>
  /\ wProgress = <<>>
  /\ wResult = [settled |-> "pending", value |-> <<>>]
  /\ wOnError = 0
  /\ wOnAnalysisComplete = <<>>
  /\ wFailedAt = "none"

\* updateState() of the workflow: the state after it, and the step of each
\* state delivered to onStateChange.
WorkflowUpdate(st, partial) ==
  [k \in DOMAIN st |-> IF k \in DOMAIN partial THEN partial[k] ELSE st[k]]

\* Faulty variant: the failure is not reported to onError.
RunCatchSilent(at) ==
  /\ wState' = WorkflowUpdate(wState, [step |-> "idle", status |-> "error"])
  /\ wSteps' = Append(wSteps, "idle")
  /\ wResult' = Rejected
  /\ wFailedAt' = at
  /\ wpc' = "done"
  /\ wRequested' = <<>>
  /\ UNCHANGED <<wConfig, wDataset, wProfiles, wOutcomes, wAnalyzerCalls, wResults,
                 wProgress, wOnAnalysisComplete, wOnError>>

\* The catch block of run(): the awaited call `at` rejected.
RunCatch(at) ==
  /\ wState' = WorkflowUpdate(wState, [step |-> "idle", status |-> "error"])
  /\ wSteps' = Append(wSteps, "idle")
  /\ wOnError' = wOnError + 1
  /\ wResult' = Rejected
  /\ wFailedAt' = at
  /\ wpc' = "done"
  /\ wRequested' = <<>>
  /\ UNCHANGED <<wConfig, wDataset, wProfiles, wOutcomes, wAnalyzerCalls, wResults,
                 wProgress, wOnAnalysisComplete>>

\* run() is called on a workflow constructed with a configuration, up to
\* the first call of the Apify client in scrapeProfiles().
run ==
  /\ wpc = "idle"
  /\ \E cfg \in LeadFinderConfigs : wConfig' = <<cfg>>
  /\ wState' = WorkflowUpdate(wState, [step |-> "scraping", status |-> "searching"])
  /\ wSteps' = Append(wSteps, "scraping")
  /\ wpc' = "runActor_posts"
  /\ UNCHANGED <<notWorkflowVars, wRequested, wDataset, wProfiles, wOutcomes,
                 wAnalyzerCalls, wResults, wProgress, wResult, wOnError,
                 wOnAnalysisComplete, wFailedAt>>

\* The end of run() after analyzeProfiles() returned the analyses, from the
\* state st with the steps delivered so far.
RunCompletes(st, steps, analyses) ==
  \E sortedAnalyses \in SortedByScore(analyses) :
    LET recommended == Recommended(sortedAnalyses)
    IN /\ wState' = WorkflowUpdate(st, [step |-> "ready_for_review",
                                        status |-> "complete",
                                        analyzedProfiles |-> recommended])
       /\ wSteps' = Append(steps, "ready_for_review")
       /\ wOnAnalysisComplete' = Append(wOnAnalysisComplete, recommended)
       /\ wResult' = Resolved(recommended)
       /\ wpc' = "done"

\* scrapeProfiles(): the run of the post scraper has settled.
scrapeProfiles_runActor_posts ==
  /\ wpc = "runActor_posts"
  /\ \/ RunCatch("runActor_posts")
     \/ /\ wpc' = "getDatasetItems_posts"
        /\ UNCHANGED <<wConfig, wState, wSteps, wRequested, wDataset, wProfiles,
                       wOutcomes, wAnalyzerCalls, wResults, wProgress, wResult,
                       wOnError, wOnAnalysisComplete, wFailedAt>>
  /\ UNCHANGED notWorkflowVars

\* scrapeProfiles(): the posts have arrived; the profile scraper is run on
\* the first maxProfiles distinct owners.
scrapeProfiles_getDatasetItems_posts ==
  /\ wpc = "getDatasetItems_posts"
  /\ \/ RunCatch("getDatasetItems_posts")
     \/ /\ \E owners \in PostOwners :
             wRequested' = slice0(Unique(owners), wConfig[1].maxProfiles)
        /\ wpc' = "runActor_profiles"
        /\ UNCHANGED <<wConfig, wState, wSteps, wDataset, wProfiles, wOutcomes,
                       wAnalyzerCalls, wResults, wProgress, wResult, wOnError,
                       wOnAnalysisComplete, wFailedAt>>
  /\ UNCHANGED notWorkflowVars

\* scrapeProfiles(): the run of the profile scraper has settled.
scrapeProfiles_runActor_profiles ==
  /\ wpc = "runActor_profiles"
  /\ \/ RunCatch("runActor_profiles")
     \/ /\ wpc' = "getDatasetItems_profiles"
        /\ wRequested' = <<>>
        /\ UNCHANGED <<wConfig, wState, wSteps, wDataset, wProfiles, wOutcomes,
                       wAnalyzerCalls, wResults, wProgress, wResult, wOnError,
                       wOnAnalysisComplete, wFailedAt>>
  /\ UNCHANGED notWorkflowVars

\* scrapeProfiles(): the profiles have arrived and are filtered; run() goes
\* on to analyzeProfiles(), which returns at once for no profile and else
\* calls analyzeProfile() on the first one.
scrapeProfiles_getDatasetItems_profiles ==
  /\ wpc = "getDatasetItems_profiles"
  /\ \/ RunCatch("getDatasetItems_profiles")
     \/ \E dataset \in DatasetsUpTo(MaxDataset) :
          LET profiles == SelectSeq(dataset,
                                    LAMBDA p : KeepsProfile(p, wConfig[1]))
              found == WorkflowUpdate(wState, [totalProfiles |-> Len(profiles),
                                               status |-> "found"])
              analyzing == WorkflowUpdate(found, [step |-> "analyzing"])
              steps == wSteps \o <<"scraping", "analyzing">>
          IN /\ wDataset' = dataset
             /\ wProfiles' = profiles
             /\ IF Len(profiles) = 0
                THEN /\ RunCompletes(analyzing, steps, <<>>)
                     /\ UNCHANGED wAnalyzerCalls
                ELSE /\ wState' = analyzing
                     /\ wSteps' = steps
                     /\ wAnalyzerCalls' = <<profiles[1]>>
                     /\ wpc' = "messages_create"
                     /\ UNCHANGED <<wResult, wOnAnalysisComplete>>
             /\ UNCHANGED <<wConfig, wRequested, wOutcomes, wResults,
                            wProgress, wOnError, wFailedAt>>
  /\ UNCHANGED notWorkflowVars

\* analyzeProfiles(): the request of analyzeProfile() for the current
\* profile has settled. The analysis or the minimal one is pushed,
\* onProgress is called, and the rate limiting wait follows unless this was
\* the last profile.
analyzeProfiles_messages_create ==
  /\ wpc = "messages_create"
  /\ \E o \in BatchOutcomes :
       LET i == Len(wResults) + 1
           profile == wProfiles[i]
           pushed == IF o.error THEN MinimalAnalysis(profile)
                     ELSE ProfileAnalysis(profile,
                                          AnalysisData(profile, o.content))
           results == Append(wResults, pushed)
           progressed == WorkflowUpdate(wState, [processedProfiles |-> i,
                                                 status |-> "analyzing"])
           steps == Append(wSteps, "analyzing")
       IN /\ wOutcomes' = Append(wOutcomes, o)
          /\ wResults' = results
          /\ wProgress' = Append(wProgress, <<i, Len(wProfiles)>>)
          /\ IF i < Len(wProfiles)
             THEN /\ wState' = progressed
                  /\ wSteps' = steps
                  /\ wpc' = "setTimeout"
                  /\ UNCHANGED <<wResult, wOnAnalysisComplete>>
             ELSE RunCompletes(progressed, steps, results)
  /\ UNCHANGED <<notWorkflowVars, wConfig, wRequested, wDataset, wProfiles,
                 wAnalyzerCalls, wOnError, wFailedAt>>

\* analyzeProfiles(): the rate limiting wait is over; analyzeProfile() is
\* called on the next profile.
analyzeProfiles_setTimeout ==
  /\ wpc = "setTimeout"
  /\ wAnalyzerCalls' = Append(wAnalyzerCalls, wProfiles[Len(wResults) + 1])
  /\ wpc' = "messages_create"
  /\ UNCHANGED <<notWorkflowVars, wConfig, wState, wSteps, wRequested,
                 wDataset, wProfiles, wOutcomes, wResults, wProgress, wResult, wOnError,
                 wOnAnalysisComplete, wFailedAt>>

WorkflowNext ==
  \/ run
  \/ scrapeProfiles_runActor_posts
  \/ scrapeProfiles_getDatasetItems_posts
  \/ scrapeProfiles_runActor_profiles
  \/ scrapeProfiles_getDatasetItems_profiles
  \/ analyzeProfiles_messages_create
  \/ analyzeProfiles_setTimeout

(***************************************************************************)
(* searchHashtag() of InstagramCrawler seen from the post refs: the refs    *)
(* extractPostRefs() reads from the snapshot of a hashtag page, the count  *)
(* added to profilesFound and the refs the loop hands to                   *)
(* analyzePostProfile(), which clicks them.                                *)
(***************************************************************************)
MaxGridLines == 2
MaxGridPosts == 22

\* Lines of a hashtag page: posts as an image and as links with the three
\* notations of a ref, an image with a bare number in brackets, a button
\* with a ref, a link whose ref is not a number.
GridLines ==
  { Line("ref_e", 1, <<"i","m","g"," ","p","o","s","t">>),
    Line("ref", 2, <<"l","i","n","k"," ","p","o","s","t">>),
    Line("aria", 3, <<"l","i","n","k"," ","r","e","e","l">>),
    Line("bracket", 4, <<"i","m","g"," ","p","o","s","t">>),
    Line("ref_e", 5, <<"b","u","t","t","o","n"," ","F","o","l","l","o","w">>),
    Line("ref_word", 6, <<"l","i","n","k"," ","p","o","s","t">>) }

RECURSIVE GridsUpTo(_)
GridsUpTo(n) ==
  IF n = 0 THEN {<<>>}
  ELSE LET shorter == GridsUpTo(n - 1)
       IN shorter \cup
          {Append(g, l) : g \in {x \in shorter : Len(x) = n - 1},
                          l \in GridLines}

\* A page of n posts, the ref of each the number of its line, after a line
\* that is no post.
LongGrid(n) ==
  [i \in 1..(n + 1) |->
     IF i = 1 THEN Line("ref_e", 1, <<"b","u","t","t","o","n">>)
     ELSE Line("ref_e", i, <<"i","m","g"," ","p","o","s","t">>)]

GridSnapshots ==
  GridsUpTo(MaxGridLines) \cup {LongGrid(n) : n \in 19..MaxGridPosts}

\* The condition of extractPostRefs() on a line, with the match of the ref.
IsPostLine(l) ==
  /\ includes(l.text, <<"i","m","g">>) \/ includes(l.text, <<"l","i","n","k">>)
  /\ l.form \in {"ref_e", "ref", "ref_word", "aria"}
  /\ RefOfLine(l) # NoRef

\* Faulty variant: every ref found is returned.
extractPostRefsUncut(snapshot) ==
  LET posts == SelectSeq(snapshot, IsPostLine)
  IN [i \in DOMAIN posts |-> RefOfLine(posts[i])]

\* extractPostRefs()
extractPostRefs(snapshot) ==
  LET posts == SelectSeq(snapshot, IsPostLine)
  IN slice0([i \in DOMAIN posts |-> RefOfLine(posts[i])], 20)

PostsInit ==
  /\ gpc = "snapshot"
  /\ gHashtag = 1
  /\ gSnapshot = <<>>
  /\ gRefs = <<>>
  /\ gFoundBefore = 0
  /\ gFound = 0
  /\ gClicked = <<>>

\* searchHashtag(): the snapshot of the hashtag page has resolved; the refs
\* are extracted and counted into profilesFound.
searchHashtag_extractPostRefs ==
  /\ gpc = "snapshot"
  /\ gHashtag <= MaxHashtags
  /\ \E snapshot \in GridSnapshots :
       /\ gSnapshot' = snapshot
       /\ gRefs' = extractPostRefs(snapshot)
  /\ gFoundBefore' = gFound
  /\ gFound' = gFound + Len(gRefs')
  /\ gClicked' = <<>>
  /\ gpc' = "posts"
  /\ UNCHANGED <<notPostsVars, gHashtag>>

\* searchHashtag(): one turn of the loop over the refs. With a ref left and
\* the lead limit not reached, analyzePostProfile() clicks the ref; else
\* the loop ends and start() goes to the next hashtag.
searchHashtag_forPostRef ==
  /\ gpc = "posts"
  /\ \E limitReached \in BOOLEAN :
       IF Len(gClicked) < Len(gRefs) /\ ~limitReached
       THEN /\ gClicked' = Append(gClicked, gRefs[Len(gClicked) + 1])
            /\ UNCHANGED <<gpc, gHashtag>>
       ELSE /\ gpc' = "snapshot"
            /\ gHashtag' = gHashtag + 1
            /\ UNCHANGED gClicked
  /\ UNCHANGED <<notPostsVars, gSnapshot, gRefs, gFoundBefore, gFound>>

PostsNext ==
  \/ searchHashtag_extractPostRefs
  \/ searchHashtag_forPostRef

(***************************************************************************)
(* The crawl run                                                           *)
(***************************************************************************)
CrawlNext ==
  \/ start
  \/ start_navigate
  \/ start_wait
  \/ start_snapshot
  \/ searchHashtag_navigate
  \/ searchHashtag_wait
  \/ searchHashtag_snapshot
  \/ searchHashtag_delay
  \/ analyzePostProfile_click
  \/ analyzePostProfile_wait1
  \/ analyzePostProfile_snapshot1
  \/ closeModal_snapshot
  \/ closeModal_click
  \/ closeModal_back
  \/ analyzePostProfile_wait2
  \/ analyzePostProfile_navigate
  \/ analyzePostProfile_wait3
  \/ analyzePostProfile_snapshot2
  \/ analyzePostProfile_analyze

vars == <<crawlVars, dmVars, browserVars, unitVars>>

Init ==
  /\ CrawlerInit /\ DMInit /\ BrowserInit
  /\ AnalyzerInit /\ RefInit /\ CountInit /\ ExtractInit /\ WorkflowInit
  /\ PostsInit

\* A crawl run of InstagramCrawler.
CrawlSpec == Init /\ [][CrawlNext]_vars

\* The steps of a crawl run once start() has been called: each is the
\* settlement of the call start() awaits.
CrawlSteps == pc # "idle" /\ CrawlNext

\* A crawl run in which every browser call and every call of the analyzer
\* that start() awaits is settled in the end, resolved or rejected.
CrawlLiveSpec == Init /\ [][CrawlNext]_vars /\ WF_vars(CrawlSteps)

\* One call of DMSender.sendDM (the crawler is not started; its configuration
\* is fixed).
DMSpecInit ==
  /\ Init
  /\ config = [hashtags |-> <<>>, minFollowers |-> 2, maxFollowers |-> 3,
               maxProfiles |-> 0, actionDelayMs |-> 2000]

DMSpec == DMSpecInit /\ [][DMNext]_vars

\* A crawl run of InstagramCrawler or one call of DMSender.sendDM: either
\* starts only while the other has not.
FlowNext ==
  \/ dpc = "idle" /\ CrawlNext
  \/ pc = "idle" /\ DMNext

FlowSpec == Init /\ [][FlowNext]_vars

\* Calls of analyzeProfile() of either ProfileAnalyzer (the crawler is not
\* started).
AnalyzerSpecInit == DMSpecInit

AnalyzerSpec == AnalyzerSpecInit /\ [][AnalyzerNext]_vars

\* Calls of findRefByText().
RefSpecInit == DMSpecInit

RefNext == findRefByText_call

RefSpec == RefSpecInit /\ [][RefNext]_vars

\* Calls of either parseCount().
CountSpecInit == DMSpecInit

CountSpec == CountSpecInit /\ [][CountNext]_vars

\* Calls of extractProfileData().
ExtractSpecInit == DMSpecInit

ExtractSpec == ExtractSpecInit /\ [][ExtractNext]_vars

\* A run of LeadFinderWorkflow.
WorkflowSpecInit == DMSpecInit

WorkflowSpec == WorkflowSpecInit /\ [][WorkflowNext]_vars

\* The post refs of the hashtags of a crawl run.
PostsSpecInit == DMSpecInit

PostsSpec == PostsSpecInit /\ [][PostsNext]_vars

(***************************************************************************)
(* Properties                                                              *)
(***************************************************************************)
Last(sq) == sq[Len(sq)]

RECURSIVE SumOver(_, _)
SumOver(f, S) ==
  IF S = {} THEN 0
  ELSE LET x == CHOOSE y \in S : TRUE IN f[x] + SumOver(f, S \ {x})

\* Number of onProfileSkipped calls made so far.
TotalSkipCalls == SumOver([u \in Usernames |-> Len(skipCalls[u])], Usernames)

LeadsOf(u) == {i \in DOMAIN discoveredLeads : discoveredLeads[i].username = u}

SendClicks ==
  {i \in DOMAIN browserLog :
     browserLog[i].op = "click" /\ browserLog[i].site = "clickSendButton"}

\* C1: in sendDM the send button is clicked only after the confirmation
\* callback resolved with "confirm"; after "cancel" or "edit" the last browser
\* call stays the screenshot taken before the decision, sendDM has returned
\* false and onComplete(false, reason) is its only onComplete call.
C1_SendOnlyAfterConfirm ==
  /\ SendClicks # {} => decision = "confirm"
  /\ decision \in {"cancel", "edit"} =>
       /\ dpc = "done"
       /\ dmResult = "false"
       /\ Last(browserLog).op = "screenshot"
       /\ Len(onCompleteCalls) = 1
       /\ ~onCompleteCalls[1].success
       /\ onCompleteCalls[1].error # "none"

C1_Witness == decision = "confirm" /\ SendClicks # {} /\ dmResult = "true"

\* C2: a profile whose analysis says shouldSkip is never a discovered lead
\* and never given to onLeadDiscovered, whatever its score; onProfileSkipped
\* is called for it and profilesSkipped counts that call.
C2_SkipNeverLead ==
  /\ \A i \in DOMAIN discoveredLeads : ~discoveredLeads[i].analysis.shouldSkip
  /\ \A i \in DOMAIN leadCalls : ~leadCalls[i].analysis.shouldSkip
  /\ (analysis # <<>> /\ analysis[1].shouldSkip) =>
       /\ LeadsOf(username) = {}
       /\ \A i \in DOMAIN leadCalls : leadCalls[i].username # username
       /\ skipCalls[username] = <<"analysis">>
  /\ state.profilesSkipped = TotalSkipCalls

C2_Witness ==
  /\ analysis # <<>>
  /\ analysis[1].shouldSkip
  /\ analysis[1].score = 8
  /\ skipCalls[username] = <<"analysis">>

\* C3: a visited profile whose followersCount is below minFollowers or above
\* maxFollowers gets exactly one onProfileSkipped call, with the follower
\* count reason, counted in profilesSkipped; the analyzer is not called for
\* it and it is no lead.
C3_FollowerFilter ==
  /\ \A u \in Usernames :
       (profileOf[u] # <<>> /\ (profileOf[u][1] < config.minFollowers
                                \/ profileOf[u][1] > config.maxFollowers)) =>
         /\ skipCalls[u] = <<"followers">>
         /\ analyzerCalls[u] = 0
         /\ LeadsOf(u) = {}
  /\ state.profilesSkipped = TotalSkipCalls
  /\ state.profilesSkipped <= Cardinality(visitedProfiles)

C3_Witness ==
  \E u \in Usernames :
    /\ profileOf[u] # <<>>
    /\ profileOf[u][1] > config.maxFollowers
    /\ skipCalls[u] = <<"followers">>
    /\ state.profilesSkipped = 1

\* C4: when the analysis of a visited profile within the follower bounds
\* comes back with shouldSkip false, that step appends exactly one lead for
\* the profile, raises leadsDiscovered by exactly one and calls
\* onLeadDiscovered once with that lead.
C4_LeadRecorded ==
  [][(pc = "analyzePostProfile_analyze" /\ analysis' # <<>>
        /\ ~analysis'[1].shouldSkip) =>
       /\ profileOf[username][1] >= config.minFollowers
       /\ profileOf[username][1] <= config.maxFollowers
       /\ Len(discoveredLeads') = Len(discoveredLeads) + 1
       /\ SubSeq(discoveredLeads', 1, Len(discoveredLeads)) = discoveredLeads
       /\ Last(discoveredLeads').username = username
       /\ Last(discoveredLeads').analysis = analysis'[1]
       /\ Last(discoveredLeads').followersCount = profileOf[username][1]
       /\ state'.leadsDiscovered = state.leadsDiscovered + 1
       /\ leadCalls' = Append(leadCalls, Last(discoveredLeads'))]_vars

C4_Witness ==
  /\ analysis # <<>>
  /\ ~analysis[1].shouldSkip
  /\ analysis[1].score = 8
  /\ Len(discoveredLeads) = 1
  /\ state.leadsDiscovered = 1

\* C5: the analyzer is called at most once and the profile page visited at
\* most once per username in a run, under whichever hashtag its posts are
\* found, and visitedProfiles never loses an element.
C5_NoSecondAnalysis ==
  /\ [](\A u \in Usernames : analyzerCalls[u] <= 1 /\ profileVisits[u] <= 1)
  /\ [][visitedProfiles \subseteq visitedProfiles']_vars

C5_Witness ==
  /\ pc = "closeModal_snapshot"
  /\ closeCtx = "return"
  /\ username \in visitedProfiles
  /\ hIdx = 2
  /\ analyzerCalls[username] = 1

\* The status graph as stated: idle -> starting -> searching <-> browsing <->
\* analyzing -> (waiting) -> completed, and error from any state.
StatedEdges ==
  { <<"idle", "starting">>, <<"starting", "searching">>,
    <<"searching", "browsing">>, <<"browsing", "searching">>,
    <<"browsing", "analyzing">>, <<"analyzing", "browsing">>,
    <<"analyzing", "waiting">>, <<"waiting", "completed">>,
    <<"analyzing", "completed">> }
  \cup {<<s, "error">> : s \in {"idle", "starting", "searching", "browsing",
                                "analyzing", "waiting", "completed"}}

\* The edges the run also takes: completion from every running state, and a
\* new hashtag search right after an analysis.
AddedEdges ==
  { <<"starting", "completed">>, <<"searching", "completed">>,
    <<"browsing", "completed">>, <<"analyzing", "searching">> }

\* C6 (as stated): every change of status follows an edge of the stated graph.
C6_StatedGraph ==
  [][state'.status # state.status =>
       <<state.status, state'.status>> \in StatedEdges]_vars

\* C6 (amended): every change of status follows an edge of the stated graph
\* or one of: starting -> completed, searching -> completed, browsing ->
\* completed, analyzing -> searching; the status waiting is never set.
C6_StatusGraph ==
  [][/\ state'.status # state.status =>
          <<state.status, state'.status>> \in StatedEdges \cup AddedEdges
     /\ state'.status # "waiting"]_vars

C6_Witness ==
  /\ state.status = "completed"
  /\ {"starting", "searching", "browsing", "analyzing"} \subseteq emitted

TopLevelCalls ==
  {"start_navigate", "start_wait", "start_snapshot", "searchHashtag_navigate",
   "searchHashtag_wait", "searchHashtag_snapshot", "searchHashtag_delay"}

\* C7: when the login check fails or another exception reaches the top
\* level of start(), the status is error with the message, onError has been
\* called exactly once, start() has rejected and completed was never
\* delivered; after a failed login check no hashtag page was navigated to
\* and no analysis was made.
C7_FatalFailure ==
  /\ (thrown \in TopLevelCalls \/ loginFailed) => result = "rejected"
  /\ result = "rejected" =>
       /\ state.status = "error"
       /\ state.error # "none"
       /\ onErrorCalls = 1
       /\ "completed" \notin emitted
       /\ pc = "failed"
  /\ result # "rejected" => onErrorCalls = 0
  /\ loginFailed =>
       /\ tagNavs = 0
       /\ \A u \in Usernames : analyzerCalls[u] = 0 /\ profileVisits[u] = 0

C7_Witness == loginFailed /\ result = "rejected" /\ state.status = "error"

PostIterationCalls ==
  {"analyzePostProfile_click", "analyzePostProfile_wait1",
   "analyzePostProfile_snapshot1", "closeModal_snapshot", "closeModal_click",
   "closeModal_back", "analyzePostProfile_wait2", "analyzePostProfile_navigate",
   "analyzePostProfile_wait3", "analyzePostProfile_snapshot2",
   "analyzePostProfile_analyze", "searchHashtag_delay"}

\* C8: a failure of a step made while the post candidates of a hashtag are
\* iterated is caught: the status does not become error and start() does not
\* reject.
C8_PostFailureIsolated ==
  thrown \in PostIterationCalls =>
    /\ state.status # "error"
    /\ result = "pending"

\* C9: every step in which an exception is handled calls onError or
\* onProfileSkipped.
C9_FailureSurfaced ==
  [][thrown' # "none" =>
       \/ onErrorCalls' > onErrorCalls
       \/ \E u \in Usernames : Len(skipCalls'[u]) > Len(skipCalls[u])]_vars

WellFormedMembers ==
  {"isLikelyOwner", "score", "confidence", "reasons", "dmOptions", "shouldSkip"}

\* C11: analyzeProfile() of analyzer.ts never rejects: whatever the language
\* model call does (rejects, answers without a brace-delimited object, with
\* one that is no valid JSON, or with a valid JSON object), it resolves with
\* an analysis that has isLikelyOwner, score, confidence, reasons, dmOptions
\* and shouldSkip.
C11_WellFormed ==
  (apc = "done" /\ analyzer = "openai") =>
    /\ aResult.settled = "resolved"
    /\ WellFormedMembers \subseteq DOMAIN aResult.value[1]

\* The language model call failed or its response holds no parseable JSON
\* object.
NoParseableObject(o) ==
  \/ o.error
  \/ jsonMatch(o.content) = <<>>
  \/ ~JSONValid(jsonMatch(o.content)[1])

\* C12: when the language model call fails or its response holds no
\* parseable JSON object, analyzeProfile() of either analyzer resolves with
\* the keyword fallback: confidence low, a low score, shouldSkip equal to
\* the negation of isLikelyOwner, hence shouldSkip true when the biography
\* holds none of the ownership keywords.
C12_SameFallback ==
  (apc = "done" /\ NoParseableObject(llm[1])) =>
    /\ aResult.settled = "resolved"
    /\ LET r == aResult.value[1]
           bio == toLowerCase(aProfile[1].biography)
       IN /\ {"isLikelyOwner", "score", "confidence", "shouldSkip"}
               \subseteq DOMAIN r
          /\ r.confidence = "low"
          /\ r.score <= 5
          /\ r.shouldSkip = ~r.isLikelyOwner
          /\ (\A k \in OwnerKeywords : ~includes(bio, k)) => r.shouldSkip

\* C13: every lead the crawler has recorded has a followersCount within
\* [minFollowers, maxFollowers] and an analysis that is non-skip (shouldSkip
\* false) and owner-likely (isLikelyOwner true).
C13_LeadVerdict ==
  \A i \in DOMAIN discoveredLeads :
    /\ discoveredLeads[i].followersCount >= config.minFollowers
    /\ discoveredLeads[i].followersCount <= config.maxFollowers
    /\ ~discoveredLeads[i].analysis.shouldSkip
    /\ discoveredLeads[i].analysis.isLikelyOwner

\* The reasons sendDM() gives when a control is not found, and the method
\* that looks the control up.
MissingReasons ==
  {"message button not found", "message input not found", "send button not found"}

MissingSite(m) ==
  CASE m = "message button not found" -> "openDMDialog"
    [] m = "message input not found" -> "typeMessage"
    [] m = "send button not found" -> "clickSendButton"

\* C16: in sendDM(), when the message button, the message input or the send
\* button is not found in the snapshot, the attempt ends there: no click or
\* type is ever issued without a resolved ref, the snapshot is the last
\* browser call, state.error holds the reason with browserStatus closed,
\* onComplete(false, reason) is the only completion call and sendDM()
\* resolves with false.
C16_MissingControlAborts ==
  /\ \A i \in DOMAIN browserLog :
       browserLog[i].op \in {"click", "type"} => browserLog[i].ref # NoRef
  /\ \A m \in MissingReasons :
       (onCompleteCalls # <<>> /\ Last(onCompleteCalls).error = m) =>
         /\ dpc = "done"
         /\ dmResult = "false"
         /\ dmState.error = m
         /\ dmState.browserStatus = "closed"
         /\ onCompleteCalls = <<[success |-> FALSE, error |-> m]>>
         /\ Last(browserLog) = Call("snapshot", MissingSite(m), NoRef)
         /\ \A i \in DOMAIN browserLog :
              browserLog[i].site = MissingSite(m) =>
                browserLog[i].op \notin {"click", "type"}

C16_Witness ==
  /\ dmState.error = "send button not found"
  /\ decision = "confirm"
  /\ dmResult = "false"
  /\ Last(browserLog) = Call("snapshot", "clickSendButton", NoRef)

\* The lines of the snapshot findRefByText() was given that contain one of
\* the patterns, compared without regard to case.
MatchingLines ==
  {i \in 1..Len(rSnapshot) : LineMatches(rSnapshot[i], rPatterns)}

\* C17 as stated: findRefByText() returns the ref found on the first line
\* that contains one of the patterns, and null when no line contains one.
C17_FirstMatchingLine ==
  rResult # <<>> =>
    IF MatchingLines = {} THEN rResult[1] = NoRef
    ELSE \E i \in MatchingLines :
           /\ \A j \in MatchingLines : i <= j
           /\ rResult[1] = RefOfLine(rSnapshot[i])

\* The lines that contain one of the patterns and carry a ref.
MatchingRefLines == {i \in MatchingLines : RefOfLine(rSnapshot[i]) # NoRef}

\* C17: findRefByText() returns the ref of the first line that contains one
\* of the patterns and carries a ref, and null when there is no such line.
C17_FirstLineWithRef ==
  rResult # <<>> =>
    IF MatchingRefLines = {} THEN rResult[1] = NoRef
    ELSE \E i \in MatchingRefLines :
           /\ \A j \in MatchingRefLines : i <= j
           /\ rResult[1] = RefOfLine(rSnapshot[i])

C17_Witness ==
  /\ rResult # <<>>
  /\ Len(rSnapshot) = 2
  /\ 1 \in MatchingLines
  /\ RefOfLine(rSnapshot[1]) = NoRef
  /\ 2 \in MatchingRefLines
  /\ rResult[1] = RefOfLine(rSnapshot[2])

\* round(mantissa * multiplier) of a well-formed count, the mantissa given
\* in tenths.
ExpectedCount(c) ==
  LET tenths == c.int.value * 10 + c.frac.tenths
  IN IF c.suffix.times = 1 THEN (2 * tenths + 10) \div 20
     ELSE tenths * (c.suffix.times \div 10)

\* C18: for every well-formed count text with no suffix or a suffix K, M
\* (in either case) or the character for ten thousand, parseCount() returns
\* round(mantissa * multiplier), thousands separators removed.
C18_CountNormalized ==
  cResult # <<>> => cResult[1] = ExpectedCount(cInput[1])

\* C14: during a crawl run and during a DM send flow at most one browser
\* call is outstanding at any time.
C14_OneCallOutstanding == inFlight <= 1

C14_Witness ==
  \/ pc = "analyzePostProfile_click" /\ pIdx = 2 /\ inFlight = 1
  \/ dpc = "clickSendButton_click" /\ inFlight = 1

\* The positions within analyzePostProfile().
AnalyzePostCalls == PostIterationCalls \ {"searchHashtag_delay"}

\* C15: when the processing of a post candidate ends, the pacing wait is
\* issued; its duration is at least actionDelayMs and less than
\* actionDelayMs + 1000; and a post candidate after the first is clicked
\* only when that wait has resolved.
C15_PacedPosts ==
  [][/\ (pc \in AnalyzePostCalls /\ pc' \notin AnalyzePostCalls) =>
          pc' = "searchHashtag_delay"
     /\ pc' = "searchHashtag_delay" =>
          /\ delayMs' >= config.actionDelayMs
          /\ delayMs' < config.actionDelayMs + 1000
     /\ (pc' = "analyzePostProfile_click" /\ pIdx' > 1) =>
          /\ pc = "searchHashtag_delay"
          /\ delayMs >= config.actionDelayMs
          /\ delayMs < config.actionDelayMs + 1000]_vars

C15_Witness ==
  /\ pc = "searchHashtag_delay"
  /\ pIdx = 1
  /\ postRefs = 2
  /\ Len(discoveredLeads) < config.maxProfiles
  /\ delayMs = config.actionDelayMs + 999

\* The lines of the snapshot that show the member f of the profile.
Showing(f) == {i \in DOMAIN eLines : eLines[i].field = f}

\* The text the first line showing the member f shows, else the text d.
ShownText(f, d) ==
  IF Showing(f) = {} THEN d
  ELSE eLines[CHOOSE i \in Showing(f) : \A j \in Showing(f) : i <= j].str

\* The number the first line showing the member f shows, else 0.
ShownCount(f) ==
  IF Showing(f) = {} THEN 0
  ELSE eLines[CHOOSE i \in Showing(f) : \A j \in Showing(f) : i <= j].num

\* The texts of the caption lines, in the order of the snapshot.
ShownCaptions ==
  LET lines == SelectSeq(eLines, LAMBDA l : l.field = "caption")
  IN [i \in 1..Min(Len(lines), 3) |-> lines[i].str]

\* C19: extractProfileData() returns a profile with every member for every
\* snapshot. A member whose pattern matches no line of the snapshot has its
\* default: the username for the full name, the empty text for the
\* biography, 0 for the three counts, false for the business flag, no value
\* for the category and the link, no captions. Every other member has the
\* value its first line shows, whichever other lines are there or missing.
C19_Defaults ==
  eResult # <<>> =>
    LET p == eResult[1]
    IN /\ DOMAIN p = {"username", "fullName", "biography", "followersCount",
                      "followsCount", "postsCount", "isBusinessAccount",
                      "businessCategory", "externalUrl", "profileUrl",
                      "recentPostCaptions", "rawSnapshot"}
       /\ p.username = <<"u","1">>
       /\ p.fullName = ShownText("fullName", <<"u","1">>)
       /\ p.biography = ShownText("biography", ShownText("bioline", <<>>))
       /\ p.followersCount = ShownCount("followersCount")
       /\ p.followsCount = ShownCount("followsCount")
       /\ p.postsCount = ShownCount("postsCount")
       /\ p.isBusinessAccount = (Showing("isBusinessAccount") # {})
       /\ p.businessCategory =
            (IF Showing("businessCategory") = {} THEN <<>>
             ELSE <<ShownText("businessCategory", <<>>)>>)
       /\ p.externalUrl =
            (IF Showing("externalUrl") = {} THEN <<>>
             ELSE <<ShownText("externalUrl", <<>>)>>)
       /\ p.recentPostCaptions = ShownCaptions
       /\ p.rawSnapshot = SnapshotText(eLines)

\* A profile was extracted from a snapshot with a line that matches no
\* pattern and a line showing one member: the full name is the default and
\* the count is the one shown, or the other way round.
C19_Witness ==
  /\ eResult # <<>>
  /\ Len(eLines) = 2
  /\ Showing("none") # {}
  /\ \/ Showing("followersCount") # {} /\ eResult[1].fullName = <<"u","1">>
                                       /\ eResult[1].followersCount > 0
     \/ Showing("fullName") # {} /\ eResult[1].followersCount = 0
                                 /\ eResult[1].fullName = <<"A","m","y">>

\* C20: isBusinessAccount is true exactly when a line of the snapshot is one
\* of the four business markers, and it is the same for the same lines in
\* any other order.
C20_BusinessMarker ==
  /\ eResult # <<>> =>
        eResult[1].isBusinessAccount
          = (\E i \in DOMAIN eLines : eLines[i].field = "isBusinessAccount")
  /\ eReordered # <<>> =>
        eReordered[1].isBusinessAccount = eResult[1].isBusinessAccount

\* A snapshot whose second line is a business marker was extracted, and so
\* were its lines with the marker first.
C20_Witness ==
  /\ eReordered # <<>>
  /\ Len(eLines) = 2
  /\ eLines[1].field # "isBusinessAccount"
  /\ eLines[2].field = "isBusinessAccount"
  /\ eOrder[1] = 2
  /\ eResult[1].isBusinessAccount
  /\ eReordered[1].rawSnapshot # eResult[1].rawSnapshot

\* The profiles of a sequence of analyses.
ProfilesOf(analyses) == {analyses[i].profile : i \in DOMAIN analyses}

\* C21: no private profile is passed to the analyzer, stored in
\* state.analyzedProfiles or returned by run().
C21_NoPrivateProfile ==
  /\ \A i \in DOMAIN wAnalyzerCalls : ~wAnalyzerCalls[i].private
  /\ \A p \in ProfilesOf(wState.analyzedProfiles) : ~p.private
  /\ wResult.settled = "resolved" =>
       \A p \in ProfilesOf(wResult.value[1]) : ~p.private

\* The profile dataset held a private account next to a public one, and
\* run() resolved with a recommendation.
C21_Witness ==
  /\ \E i \in DOMAIN wDataset : wDataset[i].private
  /\ wAnalyzerCalls # <<>>
  /\ wResult.settled = "resolved"
  /\ wResult.value[1] # <<>>

\* The number of times a is an element of the sequence sq.
Occurrences(sq, a) == Cardinality({i \in DOMAIN sq : sq[i] = a})

\* The analysis a has a score of 6 or more.
ScoresAtLeast6(a) == "score" \in DOMAIN a /\ a.score >= 6

\* C22: when run() has resolved, its result is in non-increasing order of
\* score and holds exactly the analyses with a score of 6 or more; the same
\* list is in state.analyzedProfiles with the step ready_for_review and was
\* given to onAnalysisComplete, which was called once.
C22_RankedRecommended ==
  wResult.settled = "resolved" =>
    LET r == wResult.value[1]
    IN /\ \A i, j \in DOMAIN r : i < j => r[i].score >= r[j].score
       /\ \A i \in DOMAIN r : ScoresAtLeast6(r[i])
       /\ \A i \in DOMAIN wResults :
            ScoresAtLeast6(wResults[i]) =>
              Occurrences(r, wResults[i]) = Occurrences(wResults, wResults[i])
       /\ \A i \in DOMAIN r : Occurrences(wResults, r[i]) > 0
       /\ wState.analyzedProfiles = r
       /\ wState.step = "ready_for_review"
       /\ wOnAnalysisComplete = <<r>>

\* The run has ended and the awaited call at failed in it.
RunFailedAt(at) == wpc = "done" /\ wFailedAt = at

\* What the catch block of run() leaves: the step idle with an error
\* status, one call of onError, the rejection, no call of
\* onAnalysisComplete and no state with the step ready_for_review.
Aborted ==
  /\ wState.step = "idle"
  /\ wState.status = "error"
  /\ wOnError = 1
  /\ wResult.settled = "rejected"
  /\ wOnAnalysisComplete = <<>>
  /\ \A i \in DOMAIN wSteps : wSteps[i] # "ready_for_review"

\* C28 as stated: a run in which a call of the scraper or the analysis of a
\* profile failed ends aborted.
C28_FailureAborts ==
  wpc = "done" =>
    ((wFailedAt # "none" \/ \E i \in DOMAIN wOutcomes : wOutcomes[i].error)
       => Aborted)

\* C28: a run in which a call of the scraper failed ends aborted; the
\* failed analysis of a profile does not fail the run, which then resolves
\* without a call of onError.
C28_ScrapingFailureAborts ==
  wpc = "done" =>
    /\ wFailedAt # "none" => Aborted
    /\ wFailedAt = "none" => wResult.settled = "resolved" /\ wOnError = 0
    /\ wFailedAt \in {"none", "runActor_posts", "getDatasetItems_posts",
                      "runActor_profiles", "getDatasetItems_profiles"}

\* The profile dataset could not be fetched.
C28_Witness == RunFailedAt("getDatasetItems_profiles")

\* C29: analyzeProfiles() has one analysis per profile it was given, in the
\* order given, once it returned; the analysis of a profile whose request
\* failed has the score 0 and isLikelyOwner false; onProgress was called
\* once per profile done, with its number and the total; and the run is
\* never failed by the batch.
C29_BatchResults ==
  /\ Len(wOutcomes) = Len(wResults)
  /\ Len(wProgress) = Len(wResults)
  /\ Len(wResults) <= Len(wProfiles)
  /\ \A i \in DOMAIN wResults :
       /\ wResults[i].profile = wProfiles[i]
       /\ wOutcomes[i].error =>
            wResults[i].score = 0 /\ ~wResults[i].isLikelyOwner
       /\ wProgress[i] = <<i, Len(wProfiles)>>
  /\ wResult.settled = "resolved" => Len(wResults) = Len(wProfiles)
  /\ wFailedAt \notin {"messages_create", "setTimeout"}

\* A batch of at least two profiles was analyzed to the end; one request
\* failed and one did not.
C29_Witness ==
  /\ wResult.settled = "resolved"
  /\ Len(wResults) >= 2
  /\ \E i, j \in DOMAIN wOutcomes : wOutcomes[i].error /\ ~wOutcomes[j].error

\* The calls of sendDM() that act on the page, in the order issued.
PageActions ==
  SelectSeq(browserLog,
            LAMBDA c : c.op \in {"navigate", "click", "type", "screenshot"})

\* The five steps of sendDM(), as the operation and the method issuing it.
SendScript ==
  <<<<"navigate", "navigateToProfile">>, <<"click", "openDMDialog">>,
    <<"type", "typeMessage">>, <<"screenshot", "takeConfirmationScreenshot">>,
    <<"click", "clickSendButton">>>>

\* C23: the page actions sendDM() has issued are the first ones of the
\* script navigate, click the message button, type, screenshot, click send,
\* the last of them only after a confirm decision; onConfirmationRequired
\* is called at most once, after the typing and the screenshot have
\* resolved, with a state whose browserStatus is waiting_confirm and whose
\* screenshot is the one taken in this call.
C23_FixedScript ==
  /\ Len(PageActions) <= Len(SendScript)
  /\ \A i \in DOMAIN PageActions :
       <<PageActions[i].op, PageActions[i].site>> = SendScript[i]
  /\ Len(PageActions) = 5 => decision = "confirm"
  /\ Len(confirmCalls) <= 1
  /\ confirmCalls # <<>> =>
       /\ Len(PageActions) >= 4
       /\ \E i \in DOMAIN browserLog :
            browserLog[i] = Call("wait", "typeMessage", NoRef)
       /\ dpc \notin {"typeMessage_type", "typeMessage_wait",
                      "takeConfirmationScreenshot"}
       /\ confirmCalls[1].browserStatus = "waiting_confirm"
       /\ confirmCalls[1].screenshot = "taken"

\* sendDM() went through all five steps and returned true.
C23_Witness ==
  /\ dpc = "done"
  /\ dmResult = "true"
  /\ Len(PageActions) = 5
  /\ Len(confirmCalls) = 1

\* The refs of the lines of the snapshot that show a control of a kind:
\* the message button, the text input, the send button.
ControlRefs(snapshot, nums) ==
  {RefOfLine(snapshot[i]) : i \in {j \in DOMAIN snapshot : snapshot[j].num \in nums}}

MessageButtonRefs(snapshot) == ControlRefs(snapshot, {1, 6})
TextInputRefs(snapshot) == ControlRefs(snapshot, {2})
SendButtonRefs(snapshot) == ControlRefs(snapshot, {3, 5})

\* C25: when the snapshot a control was looked up in shows a message
\* button, a text input and a send button, the ref given to browser.type is
\* the ref of a text input and the ref clicked by clickSendButton() is the
\* ref of a send button.
C25_RightControl ==
  (/\ MessageButtonRefs(dSnapshot) # {}
   /\ TextInputRefs(dSnapshot) # {}
   /\ SendButtonRefs(dSnapshot) # {}) =>
    /\ dpc = "typeMessage_type" =>
         Last(browserLog).ref \in TextInputRefs(dSnapshot)
    /\ dpc = "clickSendButton_click" =>
         Last(browserLog).ref \in SendButtonRefs(dSnapshot)

\* C26: once sendDM() has returned it has resolved with a boolean and
\* called onComplete exactly once, with the success flag equal to the
\* boolean, which is true only if the send button was clicked; before that
\* onComplete has not been called. No outcome of a browser call or of the
\* confirmation makes the promise reject.
C26_AlwaysResolves ==
  /\ dmResult \in {"pending", "true", "false"}
  /\ dpc = "done" =>
       /\ dmResult \in {"true", "false"}
       /\ Len(onCompleteCalls) = 1
       /\ onCompleteCalls[1].success = (dmResult = "true")
       /\ dmResult = "true" => SendClicks # {}
  /\ dpc # "done" => dmResult = "pending" /\ onCompleteCalls = <<>>

\* A browser call failed after the confirmation and sendDM() returned false.
C26_Witness ==
  /\ dpc = "done"
  /\ dmResult = "false"
  /\ decision = "confirm"
  /\ dmState.error = "browser error"
  /\ onCompleteCalls = <<[success |-> FALSE, error |-> "browser error"]>>

\* C24: for each hashtag at most 20 post refs are extracted, in the order
\* of their lines in the snapshot; the refs clicked are the first of them
\* in that order; and profilesFound has grown by the number extracted.
C24_PostRefs ==
  /\ Len(gRefs) <= 20
  /\ \A i, j \in DOMAIN gRefs :
       i < j => \E a, b \in DOMAIN gSnapshot :
                  /\ a < b
                  /\ RefOfLine(gSnapshot[a]) = gRefs[i]
                  /\ RefOfLine(gSnapshot[b]) = gRefs[j]
  /\ Len(gClicked) <= Len(gRefs)
  /\ \A k \in DOMAIN gClicked : gClicked[k] = gRefs[k]
  /\ gFound = gFoundBefore + Len(gRefs)

\* The page of the second hashtag showed more than 20 posts and all the
\* refs extracted were clicked.
C24_Witness ==
  /\ gHashtag = 2
  /\ gFoundBefore > 0
  /\ Len(gSnapshot) > 21
  /\ Len(gClicked) = 20

\* C27: in every CrawlerState delivered to onStateChange, leadsDiscovered is
\* the number of leads recorded so far, no counter is below its value in
\* the state delivered before, leadsDiscovered is at most profilesAnalyzed,
\* and leadsDiscovered + profilesSkipped is at most the number of distinct
\* usernames visited.
C27_Counters ==
  [][\A k \in DOMAIN delivered' :
       LET d == delivered'[k]
           before == IF k = 1 THEN state ELSE delivered'[k - 1].state
       IN /\ d.state.leadsDiscovered = d.leads
          /\ d.state.profilesFound >= before.profilesFound
          /\ d.state.profilesAnalyzed >= before.profilesAnalyzed
          /\ d.state.profilesSkipped >= before.profilesSkipped
          /\ d.state.leadsDiscovered >= before.leadsDiscovered
          /\ d.state.leadsDiscovered <= d.state.profilesAnalyzed
          /\ d.state.leadsDiscovered + d.state.profilesSkipped <= d.visited]_vars

\* A lead has just been recorded after another profile was skipped: the
\* step delivered the state with the profile counted as analyzed, then the
\* state with the lead counted.
C27_Witness ==
  /\ Len(delivered) = 2
  /\ delivered[1].state.leadsDiscovered = 0
  /\ delivered[2].state.leadsDiscovered = 1
  /\ delivered[2].state.profilesSkipped = 1
  /\ delivered[2].state.profilesFound > 1
  /\ delivered[2].visited = 2

\* C30: when every awaited call is settled in the end, a crawl run that
\* start() has begun ends with start() settled and the status completed or
\* error; on the way no hashtag page is opened twice, the post loop stays
\* within the refs extracted, at most 20, and no profile page is opened or
\* analyzed twice.
C30_Terminates ==
  /\ [](/\ tagNavs <= Len(config.hashtags)
        /\ pIdx <= postRefs
        /\ postRefs <= 20
        /\ \A u \in Usernames : profileVisits[u] <= 1 /\ analyzerCalls[u] <= 1)
  /\ (pc # "idle") ~> (/\ result # "pending"
                       /\ state.status \in {"completed", "error"})

\* start() has resolved after the posts of every configured hashtag were
\* handled, a profile analyzed among them.
C30_Witness ==
  /\ result = "resolved"
  /\ state.status = "completed"
  /\ tagNavs = Len(config.hashtags)
  /\ tagNavs = MaxHashtags
  /\ state.profilesFound = MaxHashtags * MaxPosts
  /\ state.profilesAnalyzed > 0

====
